---- MODULE Spec2Model ----
(***************************************************************************)
(* Model of the signature extraction pipeline of signature_extractor.py    *)
(* (class ImprovedSignatureExtractor).                                     *)
(*                                                                         *)
(* Text is modelled by TLA+ strings; a character is a string of length 1.  *)
(* Python's None is the value None below.  Regular expressions of the      *)
(* source are modelled by operators that compute the same leftmost,        *)
(* greedy, backtracking match over the characters of the string.           *)
(***************************************************************************)
EXTENDS Integers, Sequences, FiniteSets, TLC

VARIABLES
    pc,      \* "call": the arguments are bound; "return": the call returned
    input,   \* the arguments of the call
    result   \* the value returned (None before the return)

vars == <<pc, input, result>>

\* Python's None; no modelled text is this string.
None == "<None>"

(***************************************************************************)
(* Characters and strings                                                  *)
(***************************************************************************)
Digits == {"0", "1", "2", "3", "4", "5", "6", "7", "8", "9"}

LowerLetters ==
    {"a", "b", "c", "d", "e", "f", "g", "h", "i", "j", "k", "l", "m",
     "n", "o", "p", "q", "r", "s", "t", "u", "v", "w", "x", "y", "z"}

UpperLetters ==
    {"A", "B", "C", "D", "E", "F", "G", "H", "I", "J", "K", "L", "M",
     "N", "O", "P", "Q", "R", "S", "T", "U", "V", "W", "X", "Y", "Z"}

Letters == LowerLetters \cup UpperLetters

\* str.isspace() on the whitespace the modelled texts contain.
Spaces == {" ", "\t", "\n"}

LowerOf ==
    [c \in UpperLetters |->
        CASE c = "A" -> "a" [] c = "B" -> "b" [] c = "C" -> "c" [] c = "D" -> "d"
          [] c = "E" -> "e" [] c = "F" -> "f" [] c = "G" -> "g" [] c = "H" -> "h"
          [] c = "I" -> "i" [] c = "J" -> "j" [] c = "K" -> "k" [] c = "L" -> "l"
          [] c = "M" -> "m" [] c = "N" -> "n" [] c = "O" -> "o" [] c = "P" -> "p"
          [] c = "Q" -> "q" [] c = "R" -> "r" [] c = "S" -> "s" [] c = "T" -> "t"
          [] c = "U" -> "u" [] c = "V" -> "v" [] c = "W" -> "w" [] c = "X" -> "x"
          [] c = "Y" -> "y" [] c = "Z" -> "z"]

UpperOf ==
    [c \in LowerLetters |-> CHOOSE u \in UpperLetters : LowerOf[u] = c]

\* The i-th character of s (1-based).
CharAt(s, i) == SubSeq(s, i, i)

LowerChar(c) == IF c \in UpperLetters THEN LowerOf[c] ELSE c
UpperChar(c) == IF c \in LowerLetters THEN UpperOf[c] ELSE c

RECURSIVE Lower(_)
\* str.lower(), by halves so that a line of 200 characters is lowered in a
\* few nested steps
Lower(s) ==
    IF Len(s) <= 1 THEN LowerChar(s)
    ELSE Lower(SubSeq(s, 1, Len(s) \div 2)) \o Lower(SubSeq(s, Len(s) \div 2 + 1, Len(s)))

RECURSIVE Upper(_)
\* str.upper()
Upper(s) == IF s = "" THEN "" ELSE UpperChar(Head(s)) \o Upper(Tail(s))

\* s[i:] with a 0-based Python index i, 0 <= i.
From(s, i) == SubSeq(s, i + 1, Len(s))

\* s[i:j] with 0-based Python indices 0 <= i, j.
Slice(s, i, j) == SubSeq(s, i + 1, IF j < Len(s) THEN j ELSE Len(s))

\* s.startswith(p, i) for a 0-based index i
StartsAt(s, p, i) == i + Len(p) <= Len(s) /\ SubSeq(s, i + 1, i + Len(p)) = p

\* sub in s
Contains(s, sub) == \E i \in 0..(Len(s) - Len(sub)) : StartsAt(s, sub, i)

\* s.find(sub): the lowest 0-based index of sub in s, -1 when absent
Find(s, sub) ==
    IF Contains(s, sub)
    THEN CHOOSE i \in 0..(Len(s) - Len(sub)) :
            /\ StartsAt(s, sub, i)
            /\ \A j \in 0..(i - 1) : ~StartsAt(s, sub, j)
    ELSE -1

RECURSIVE LStrip(_, _)
LStrip(s, chars) ==
    IF s # "" /\ Head(s) \in chars THEN LStrip(Tail(s), chars) ELSE s

RECURSIVE RStrip(_, _)
RStrip(s, chars) ==
    IF s # "" /\ CharAt(s, Len(s)) \in chars
    THEN RStrip(SubSeq(s, 1, Len(s) - 1), chars)
    ELSE s

\* s.strip(chars)
StripChars(s, chars) == RStrip(LStrip(s, chars), chars)

\* s.strip()
Strip(s) == StripChars(s, Spaces)

RECURSIVE SplitOn(_, _)
\* re.split on single separator characters: s cut at every character of seps
\* (empty pieces kept, as re.split(r"[-_]", s) and str.split(c) keep them).
SplitOn(s, seps) ==
    IF \A i \in 1..Len(s) : CharAt(s, i) \notin seps
    THEN <<s>>
    ELSE LET k == CHOOSE i \in 1..Len(s) :
                    /\ CharAt(s, i) \in seps
                    /\ \A j \in 1..(i - 1) : CharAt(s, j) \notin seps
         IN  <<SubSeq(s, 1, k - 1)>> \o SplitOn(SubSeq(s, k + 1, Len(s)), seps)

RECURSIVE RemoveChars(_, _)
\* re.sub of a character class by "": s without the characters of chars
RemoveChars(s, chars) ==
    IF s = "" THEN ""
    ELSE (IF Head(s) \in chars THEN "" ELSE Head(s)) \o RemoveChars(Tail(s), chars)

RECURSIVE Join(_, _)
\* sep.join(seq)
Join(seq, sep) ==
    IF seq = <<>> THEN ""
    ELSE IF Len(seq) = 1 THEN seq[1]
    ELSE seq[1] \o sep \o Join(Tail(seq), sep)

\* { seq[i] }
Range(seq) == {seq[i] : i \in 1..Len(seq)}

RECURSIVE KeepChars(_, _)
\* re.sub of a negated character class by "": the characters of s that are in chars
KeepChars(s, chars) ==
    IF s = "" THEN ""
    ELSE (IF Head(s) \in chars THEN Head(s) ELSE "") \o KeepChars(Tail(s), chars)

RECURSIVE StringsOver(_, _)
\* every string of exactly n characters of chars
StringsOver(chars, n) ==
    IF n = 0 THEN {""}
    ELSE {c \o s : c \in chars, s \in StringsOver(chars, n - 1)}

\* every string of at most n characters of chars
StringsUpTo(chars, n) == UNION {StringsOver(chars, k) : k \in 0..n}

\* The modelled characters in increasing code point order (ord()).
CodeOrder ==
    <<"\t", "\n", " ", "!", "$", "%", "(", ")", "*", "+", ",", "-", ".", "/",
      "0", "1", "2", "3", "4", "5", "6", "7", "8", "9", ":", "=", "?", "@",
      "A", "B", "C", "D", "E", "F", "G", "H", "I", "J", "K", "L", "M",
      "N", "O", "P", "Q", "R", "S", "T", "U", "V", "W", "X", "Y", "Z", "_",
      "a", "b", "c", "d", "e", "f", "g", "h", "i", "j", "k", "l", "m",
      "n", "o", "p", "q", "r", "s", "t", "u", "v", "w", "x", "y", "z", "|">>

Ord == [c \in Range(CodeOrder) |-> CHOOSE i \in 1..Len(CodeOrder) : CodeOrder[i] = c]

RECURSIVE StrLess(_, _)
\* a < b for Python strings: lexicographic by code point
StrLess(a, b) ==
    IF b = "" THEN FALSE
    ELSE IF a = "" THEN TRUE
    ELSE IF Head(a) = Head(b) THEN StrLess(Tail(a), Tail(b))
    ELSE Ord[Head(a)] < Ord[Head(b)]

RECURSIVE MapLower(_)
\* [c.lower() for c in seq]
MapLower(seq) ==
    IF seq = <<>> THEN <<>> ELSE <<Lower(Head(seq))>> \o MapLower(Tail(seq))

(***************************************************************************)
(* Pattern tables                                                          *)
(***************************************************************************)
\* self._generic_brand_tokens
_generic_brand_tokens ==
    {"mail", "email", "mailer", "mx", "smtp", "noreply", "no-reply", "notify",
     "notification", "newsletter", "news", "updates", "support", "help",
     "helpdesk", "service", "services", "account", "accounts", "communication",
     "gateway", "secure", "auth", "login", "signin", "web", "app", "apps",
     "cloud", "online", "corp", "company"}

(***************************************************************************)
(* _brand_from_registered_domain                                           *)
(***************************************************************************)
\* str.capitalize(): first character upper-cased, the rest lower-cased
Capitalize(s) == IF s = "" THEN "" ELSE UpperChar(Head(s)) \o Lower(Tail(s))

NonEmpty(p) == p # ""
NotGeneric(p) == p \notin _generic_brand_tokens

RECURSIVE CapJoin(_)
\* "".join(p.capitalize() for p in parts)
CapJoin(parts) ==
    IF parts = <<>> THEN "" ELSE Capitalize(Head(parts)) \o CapJoin(Tail(parts))

\* A plausible slip: the generic tokens are never discarded.
MutBrandKeepsGeneric(registered_domain) ==
    IF registered_domain = None \/ registered_domain = "" THEN None
    ELSE LET label  == RemoveChars(SplitOn(Lower(registered_domain), {"."})[1], Digits)
             parts  == SelectSeq(SplitOn(label, {"-", "_"}), NonEmpty)
             parts2 == IF parts = <<>>
                       THEN (IF label # "" THEN <<label>> ELSE <<>>)
                       ELSE parts
             brand  == CapJoin(parts2)
         IN  IF brand = "" THEN None ELSE brand

_brand_from_registered_domain(registered_domain) ==
    IF registered_domain = None \/ registered_domain = "" THEN None
    ELSE LET rd     == Lower(registered_domain)
             label  == RemoveChars(SplitOn(rd, {"."})[1], Digits)
             parts  == SelectSeq(SplitOn(label, {"-", "_"}), NonEmpty)
             parts1 == IF Len(parts) > 1 THEN SelectSeq(parts, NotGeneric) ELSE parts
             parts2 == IF parts1 = <<>>
                       THEN (IF label # "" THEN <<label>> ELSE <<>>)
                       ELSE parts1
             brand  == CapJoin(parts2)
         IN  IF brand = "" THEN None ELSE brand

(***************************************************************************)
(* Specification SpecBrand: calls of _brand_from_registered_domain         *)
(***************************************************************************)
MaxLabelLen == 5

\* The characters of the modelled domain labels: with them the generic token
\* "mx", non-generic parts, both separators, digits and upper case occur.
LabelChars == {"m", "x", "M", "-", "_", "1"}

BrandSuffixes == {".com", ".co.uk", ""}

\* The registered_domain arguments with labels of at most n characters
BrandInputs(n) ==
    {None} \cup {l \o s : l \in StringsUpTo(LabelChars, n), s \in BrandSuffixes}

InitBrand ==
    /\ pc = "call"
    /\ input \in [fn : {"_brand_from_registered_domain"}, registered_domain : BrandInputs(MaxLabelLen)]
    /\ result = None

CallBrand ==
    /\ pc = "call"
    /\ input.fn = "_brand_from_registered_domain"
    /\ result' = _brand_from_registered_domain(input.registered_domain)
    /\ pc' = "return"
    /\ UNCHANGED input

NextBrand == CallBrand

SpecBrand == InitBrand /\ [][NextBrand]_vars

(***************************************************************************)
(* Properties of _brand_from_registered_domain (SpecBrand)                 *)
(***************************************************************************)
\* The registrable label as the specification describes it: the characters
\* before the first dot, lower-cased, without digits.
RefLabel(d) ==
    LET low == Lower(d)
        cut == IF \E i \in 1..Len(low) : CharAt(low, i) = "."
               THEN (CHOOSE i \in 1..Len(low) :
                        CharAt(low, i) = "." /\ \A j \in 1..(i - 1) : CharAt(low, j) # ".") - 1
               ELSE Len(low)
        kept == {i \in 1..cut : CharAt(low, i) \notin Digits}
        RECURSIVE Pick(_)
        Pick(i) == IF i > cut THEN ""
                   ELSE (IF i \in kept THEN CharAt(low, i) ELSE "") \o Pick(i + 1)
    IN  Pick(1)

\* The parts of a label: its maximal runs of characters other than "-" and "_",
\* as (first, last) positions, in order.
RefPartSpans(label) ==
    LET IsPartChar(i) == i >= 1 /\ i <= Len(label) /\ CharAt(label, i) \notin {"-", "_"}
    IN  {<<a, b>> \in (1..Len(label)) \X (1..Len(label)) :
            /\ a <= b
            /\ \A i \in a..b : IsPartChar(i)
            /\ ~IsPartChar(a - 1)
            /\ ~IsPartChar(b + 1)}

RECURSIVE RefConcat(_, _)
\* The parts of spans, in order of position, each capitalised and concatenated.
RefConcat(label, spans) ==
    IF spans = {} THEN ""
    ELSE LET first == CHOOSE sp \in spans : \A o \in spans : sp[1] <= o[1]
         IN  Capitalize(SubSeq(label, first[1], first[2]))
                \o RefConcat(label, spans \ {first})

\* The reference derivation of C3: generic parts are discarded only when there
\* is more than one part; what remains is concatenated.
RefBrand(d) ==
    IF d = None THEN None
    ELSE LET label == RefLabel(d)
             spans == RefPartSpans(label)
             kept  == IF Cardinality(spans) > 1
                      THEN {sp \in spans :
                               SubSeq(label, sp[1], sp[2]) \notin _generic_brand_tokens}
                      ELSE spans
             brand == RefConcat(label, kept)
         IN  IF brand = "" THEN None ELSE brand

\* The reference derivation with the fall-back of the code: when no part
\* remains, the whole digit-stripped label is capitalised as one string.
RefBrandWithFallback(d) ==
    IF d = None THEN None
    ELSE LET label == RefLabel(d)
             spans == RefPartSpans(label)
             kept  == IF Cardinality(spans) > 1
                      THEN {sp \in spans :
                               SubSeq(label, sp[1], sp[2]) \notin _generic_brand_tokens}
                      ELSE spans
             brand == IF kept = {} THEN Capitalize(label) ELSE RefConcat(label, kept)
         IN  IF brand = "" THEN None ELSE brand

BrandReturned == pc = "return" /\ input.fn = "_brand_from_registered_domain"

\* C3 (as claimed): _brand_from_registered_domain(d) equals the reference
\* derivation: label before the first dot, digits removed, split on "-" and
\* "_", generic parts discarded when more than one part exists, the remaining
\* parts capitalised and concatenated.
C3_BrandIsReference ==
    BrandReturned => result = RefBrand(input.registered_domain)

\* C3 (amended): as above, except that when every part was discarded as
\* generic the result is the whole digit-stripped label capitalised as one
\* string (mx-mx.com gives Mx-mx); none only when that label is empty.
C3_BrandIsReferenceWithFallback ==
    BrandReturned => result = RefBrandWithFallback(input.registered_domain)

\* A call on a two-part label whose generic part was discarded.
C3_Witness ==
    BrandReturned /\ input.registered_domain = "mx-x1.com" /\ result = "X"

(***************************************************************************)
(* _prefer_website                                                         *)
(***************************************************************************)
\* The sort key of line 224: (len(x), x)
KeyLess(x, y) == Len(x) < Len(y) \/ (Len(x) = Len(y) /\ StrLess(x, y))

\* sorted(elems, key=lambda x: (len(x), x))[0]
SortedFirst(elems) == CHOOSE x \in elems : \A y \in elems \ {x} : KeyLess(x, y)

\* A plausible slip: the first candidate collected is returned.
MutPreferFirst(candidates, sender_domain) ==
    IF candidates = <<>> THEN None ELSE Lower(candidates[1])

_prefer_website(candidates, sender_domain) ==
    IF candidates = <<>> THEN None
    ELSE LET norm == MapLower(candidates)
         IN  IF /\ sender_domain # None
                /\ sender_domain # ""
                /\ Lower(sender_domain) \in Range(norm)
             THEN Lower(sender_domain)
             ELSE SortedFirst(Range(norm))

(***************************************************************************)
(* Specification SpecPrefer: calls of _prefer_website                      *)
(***************************************************************************)
MaxCandidates == 3

\* Registered domains as _valid_domain returns them (lower case).
CandidateDomains == {"b.io", "a.io", "ab.co", "acme.com", "b-b.uk"}

\* Sender domains as extract_signature derives them: absent, in or out of the pool.
SenderDomains == {None, "a.io", "acme.com", "zz.org"}

RECURSIVE SeqsOver(_, _)
\* every sequence of exactly n elements of elems
SeqsOver(elems, n) ==
    IF n = 0 THEN {<<>>}
    ELSE {<<e>> \o q : e \in elems, q \in SeqsOver(elems, n - 1)}

SeqsUpTo(elems, n) == UNION {SeqsOver(elems, k) : k \in 0..n}

InitPrefer ==
    /\ pc = "call"
    /\ input \in [fn : {"_prefer_website"},
                  candidates : SeqsUpTo(CandidateDomains, MaxCandidates),
                  sender_domain : SenderDomains]
    /\ result = None

CallPrefer ==
    /\ pc = "call"
    /\ input.fn = "_prefer_website"
    /\ result' = _prefer_website(input.candidates, input.sender_domain)
    /\ pc' = "return"
    /\ UNCHANGED input

NextPrefer == CallPrefer

SpecPrefer == InitPrefer /\ [][NextPrefer]_vars

(***************************************************************************)
(* Properties of _prefer_website (SpecPrefer)                              *)
(***************************************************************************)
PreferReturned == pc = "return" /\ input.fn = "_prefer_website"

RECURSIVE Reverse(_)
Reverse(seq) == IF seq = <<>> THEN <<>> ELSE Reverse(Tail(seq)) \o <<Head(seq)>>

\* C4: over a non-empty pool the result is the sender domain when it is in the
\* pool, otherwise a pool member that no other member beats by being shorter
\* or, at equal length, alphabetically earlier; and collecting the same
\* candidates in another order or several times gives the same result.
C4_PreferWebsite ==
    PreferReturned /\ input.candidates # <<>> =>
        LET pool == Range(input.candidates)
        IN  /\ input.sender_domain \in pool => result = input.sender_domain
            /\ input.sender_domain \notin pool =>
                  /\ result \in pool
                  /\ \A c \in pool :
                        /\ Len(result) <= Len(c)
                        /\ Len(result) = Len(c) => (result = c \/ StrLess(result, c))
            /\ result = _prefer_website(Reverse(input.candidates), input.sender_domain)
            /\ result = _prefer_website(input.candidates \o Reverse(input.candidates),
                                        input.sender_domain)

\* A call where the sender is not in the pool and two shortest candidates tie
\* in length: the alphabetically first wins although it was collected last.
C4_Witness ==
    /\ PreferReturned
    /\ input.candidates = <<"ab.co", "b.io", "a.io">>
    /\ input.sender_domain = "zz.org"
    /\ result = "a.io"

(***************************************************************************)
(* Regular expression primitives                                           *)
(***************************************************************************)
\* \w
WordChars == Letters \cup Digits \cup {"_"}

\* Is the character at 0-based index i of s a word character (False outside s)?
IsWordAt(s, i) == i >= 0 /\ i < Len(s) /\ CharAt(s, i + 1) \in WordChars

\* \b at 0-based position p of s
Boundary(s, p) == IsWordAt(s, p - 1) # IsWordAt(s, p)

RECURSIVE RunEnd(_, _, _)
\* The 0-based end (exclusive) of the longest run of characters of chars
\* that starts at 0-based index i of s: what a greedy [chars]* consumes.
RunEnd(s, i, chars) ==
    IF i < Len(s) /\ CharAt(s, i + 1) \in chars THEN RunEnd(s, i + 1, chars) ELSE i

\* The largest element of a non-empty set of integers
Max(S) == CHOOSE x \in S : \A y \in S : y <= x

(***************************************************************************)
(* self.email_pattern and extract_emails                                   *)
(***************************************************************************)
\* [A-Za-z0-9._%+-]
EmailLocalChars == Letters \cup Digits \cup {".", "_", "%", "+", "-"}
\* [A-Za-z0-9.-]
EmailHostChars == Letters \cup Digits \cup {".", "-"}
\* [A-Z|a-z]: the letters and the vertical bar
EmailTldChars == Letters \cup {"|"}

\* The ends (0-based, exclusive) at which email_pattern can match from the
\* 0-based index i of s, as pairs <<d, e>>: d the index of the dot that
\* precedes the final label, e the end.
EmailMatchEnds(s, i) ==
    LET le == RunEnd(s, i, EmailLocalChars)
        hs == le + 1
        he == RunEnd(s, hs, EmailHostChars)
    IN  IF ~(Boundary(s, i) /\ le > i /\ le < Len(s) /\ CharAt(s, le + 1) = "@")
        THEN {}
        ELSE {de \in ((hs + 1)..(he - 1)) \X ((hs + 4)..Len(s)) :
                /\ CharAt(s, de[1] + 1) = "."
                /\ de[2] >= de[1] + 3
                /\ de[2] <= RunEnd(s, de[1] + 1, EmailTldChars)
                /\ Boundary(s, de[2])}

\* The end of the match of email_pattern at index i of s, -1 when there is
\* none: the greedy host backtracks from its longest extent, so the last
\* possible dot is taken, and after it the longest final label.
EmailMatchEnd(s, i) ==
    LET ends == EmailMatchEnds(s, i)
    IN  IF ends = {} THEN -1
        ELSE LET d == Max({de[1] : de \in ends})
             IN  Max({de[2] : de \in {x \in ends : x[1] = d}})

RECURSIVE EmailFindAllFrom(_, _)
\* re.findall(self.email_pattern, text): the non-overlapping matches, leftmost first
EmailFindAllFrom(s, i) ==
    IF i >= Len(s) THEN <<>>
    ELSE LET e == EmailMatchEnd(s, i)
         IN  IF e = -1 THEN EmailFindAllFrom(s, i + 1)
             ELSE <<Slice(s, i, e)>> \o EmailFindAllFrom(s, e)

\* re.search(self.email_pattern, s)
HasEmail(s) == \E i \in 0..(Len(s) - 1) : EmailMatchEnd(s, i) # -1

RECURSIVE Dedup(_, _)
\* list(dict.fromkeys(seq)): first occurrences, in order
Dedup(seq, seen) ==
    IF seq = <<>> THEN <<>>
    ELSE IF Head(seq) \in seen THEN Dedup(Tail(seq), seen)
    ELSE <<Head(seq)>> \o Dedup(Tail(seq), seen \cup {Head(seq)})

\* A plausible slip: the exclusion pattern is searched without re.IGNORECASE.
MutExampleCaseSensitive(e) ==
    Contains(e, "example.com") \/ Contains(e, "test.com") \/ Contains(e, "localhost")

\* re.search(r'(example\.com|test\.com|localhost)', e, re.IGNORECASE)
IsExampleAddress(e) ==
    LET low == Lower(e)
    IN  Contains(low, "example.com") \/ Contains(low, "test.com") \/ Contains(low, "localhost")

NotExampleAddress(e) == ~IsExampleAddress(e)

extract_emails(text) ==
    Dedup(SelectSeq(EmailFindAllFrom(text, 0), NotExampleAddress), {})

(***************************************************************************)
(* Specification SpecEmails: calls of extract_emails                       *)
(***************************************************************************)
MaxEmailPieces == 4

\* The texts are concatenations of these pieces: local parts, the excluded
\* hosts in both letter cases, a host that only contains one, other hosts.
EmailPieces ==
    {"bob@", "example.com", "test.com", "Test.COM", "localhost", "con", ".io",
     " ", "al@x.io "}

RECURSIVE Concats(_, _)
\* every concatenation of exactly n pieces
Concats(pieces, n) ==
    IF n = 0 THEN {""}
    ELSE {p \o t : p \in pieces, t \in Concats(pieces, n - 1)}

ConcatsUpTo(pieces, n) == UNION {Concats(pieces, k) : k \in 0..n}

InitEmails ==
    /\ pc = "call"
    /\ input \in [fn : {"extract_emails"}, text : ConcatsUpTo(EmailPieces, MaxEmailPieces)]
    /\ result = None

CallEmails ==
    /\ pc = "call"
    /\ input.fn = "extract_emails"
    /\ result' = extract_emails(input.text)
    /\ pc' = "return"
    /\ UNCHANGED input

NextEmails == CallEmails

SpecEmails == InitEmails /\ [][NextEmails]_vars

(***************************************************************************)
(* Properties of extract_emails (SpecEmails)                               *)
(***************************************************************************)
EmailsReturned == pc = "return" /\ input.fn = "extract_emails"

\* The host of an address: the lower-cased text after its "@".
HostOf(e) == Lower(From(e, Find(e, "@") + 1))

\* C8: no returned address is at example.com, test.com or localhost, in any
\* letter case.
C8_NoExampleDomain ==
    EmailsReturned =>
        \A k \in 1..Len(result) :
            HostOf(result[k]) \notin {"example.com", "test.com", "localhost"}

\* A text holding an address at test.com in upper case next to another
\* address: only the other address is returned.
C8_Witness ==
    /\ EmailsReturned
    /\ input.text = "al@x.io bob@Test.COM"
    /\ result = <<"al@x.io">>

(***************************************************************************)
(* extract_phones                                                          *)
(***************************************************************************)
\* CURRENCY_HINTS
CURRENCY_HINTS == {"rs.", "rs", "₹", "$", "usd", "inr", "eur"}

\* self._text_has(s, words)
_text_has(s, words) == LET sl == Lower(s) IN \E w \in words : Contains(sl, w)

\* [\d\s().-]
ChunkChars == Digits \cup Spaces \cup {"(", ")", ".", "-"}

\* The ends (0-based, exclusive) at which number_chunk,
\* (\+?\d[\d\s().-]{5,24}\d), can match from the 0-based index i of s.
ChunkEnds(s, i) ==
    LET j == IF i < Len(s) /\ CharAt(s, i + 1) = "+" THEN i + 1 ELSE i
    IN  IF ~(j < Len(s) /\ CharAt(s, j + 1) \in Digits) THEN {}
        ELSE LET run == RunEnd(s, j + 1, ChunkChars)
                 lim == IF run < j + 26 THEN run ELSE j + 26
             IN  {e \in (j + 7)..lim : CharAt(s, e) \in Digits}

\* context_words, in the order of the alternation
context_words ==
    <<"phone", "mobile", "cell", "tel", "telephone", "call", "contact",
      "office", "work", "fax">>

\* Case-insensitive match of the literal w at 0-based index i of s
MatchesWordAt(s, w, i) == i + Len(w) <= Len(s) /\ Lower(Slice(s, i, i + Len(w))) = w

\* The first alternative of words that matches at index i and ends at one of
\* the positions okEnds (those where the rest of the pattern matches), as its
\* end; -1 when there is none.
FirstWordOf(words, i, hits) ==
    IF hits = {} THEN -1
    ELSE i + Len(words[CHOOSE k \in hits : \A m \in hits : k <= m])

FirstWordEnd(s, words, i, okEnds) ==
    FirstWordOf(words, i,
                {k \in 1..Len(words) :
                    MatchesWordAt(s, words[k], i) /\ (i + Len(words[k])) \in okEnds})

\* Where the chunk of the first alternative of context_pattern,
\* context_words \s* [:\-]? \s* number_chunk, must start when the context
\* word ended at index p.
AfterContextSep(s, a) ==
    RunEnd(s, IF a < Len(s) /\ CharAt(s, a + 1) \in {":", "-"} THEN a + 1 ELSE a, Spaces)

AfterContext(s, p) == AfterContextSep(s, RunEnd(s, p, Spaces))

\* The ends of context words after which a chunk follows (first alternative)
ChunkFollows(s) == {p \in 0..Len(s) : ChunkEnds(s, AfterContext(s, p)) # {}}

\* The end of the context word that follows a chunk ending at e, -1 if none
\* (second alternative, number_chunk \s* context_words)
ContextAfterChunk(s, e) ==
    FirstWordEnd(s, context_words, RunEnd(s, e, Spaces), 0..Len(s))

\* The match [start of chunk, end of chunk, end of match] of the first
\* alternative when its chunk starts at q
ContextFirstAt(q, e) == <<q, e, e>>

\* The match of the second alternative for a chunk from i with the ends ends2
ContextSecondAt(s, i, e) == <<i, e, ContextAfterChunk(s, e)>>

\* The match of context_pattern at i, given the end wend of the context word
\* of the first alternative (-1: it does not match) and the chunk ends ends2
\* of the second alternative
ContextMatchOf(s, i, wend, ends2) ==
    IF wend # -1
    THEN ContextFirstAt(AfterContext(s, wend), Max(ChunkEnds(s, AfterContext(s, wend))))
    ELSE IF ends2 # {} THEN ContextSecondAt(s, i, Max(ends2))
    ELSE <<>>

\* A match of context_pattern at the 0-based index i of s:
\* [start, end of the captured chunk; end of the whole match], or <<>>.
ContextMatch(s, i) ==
    ContextMatchOf(s, i,
                   FirstWordEnd(s, context_words, i, ChunkFollows(s)),
                   {e \in ChunkEnds(s, i) : ContextAfterChunk(s, e) # -1})

RECURSIVE ContextChunksFrom(_, _)
RECURSIVE ContextChunksNext(_, _, _)
\* The chunks captured by context_pattern.finditer(text)
ContextChunksFrom(s, i) ==
    IF i >= Len(s) THEN <<>> ELSE ContextChunksNext(s, i, ContextMatch(s, i))

ContextChunksNext(s, i, m) ==
    IF m = <<>> THEN ContextChunksFrom(s, i + 1)
    ELSE <<Slice(s, m[1], m[2])>> \o ContextChunksFrom(s, m[3])

RECURSIVE LooseChunksFrom(_, _)
RECURSIVE LooseChunksNext(_, _, _)
\* The chunks matched by loose_pattern.finditer(text)
LooseChunksFrom(s, i) ==
    IF i >= Len(s) THEN <<>> ELSE LooseChunksNext(s, i, ChunkEnds(s, i))

LooseChunksNext(s, i, ends) ==
    IF ends = {} THEN LooseChunksFrom(s, i + 1)
    ELSE <<Slice(s, i, Max(ends))>> \o LooseChunksFrom(s, Max(ends))

\* The alternatives of the extension marker, in the order of the alternation
ExtWords == <<"ext", "x", "extension">>

\* The lengths k of \d{1,5}\b from index a of s
ExtDigitLens(s, a) ==
    {k \in 1..5 : a + k <= RunEnd(s, a, Digits) /\ Boundary(s, a + k)}

\* The ends of extension markers after which \s*(\d{1,5})\b matches
DigitsFollow(s) == {p \in 0..Len(s) : ExtDigitLens(s, RunEnd(s, p, Spaces)) # {}}

\* group(1) when the digits start at a: the longest admissible run
ExtDigitsAt(s, a) == Slice(s, a, a + Max(ExtDigitLens(s, a)))

\* group(1) given the end wend of the marker (-1: no match)
ExtDigitsAfter(s, wend) ==
    IF wend = -1 THEN None ELSE ExtDigitsAt(s, RunEnd(s, wend, Spaces))

\* The digits captured by (?:ext|x|extension)\s*(\d{1,5})\b at index i of s,
\* None when the pattern does not match there.
ExtMatchAt(s, i) == ExtDigitsAfter(s, FirstWordEnd(s, ExtWords, i, DigitsFollow(s)))

\* The smallest element of a non-empty set of integers
Min(S) == CHOOSE x \in S : \A y \in S : x <= y

ExtFirst(s, hits) == IF hits = {} THEN None ELSE ExtMatchAt(s, Min(hits))

\* re.search of the extension pattern: group(1) of the leftmost match, or None
ExtSearch(s) == ExtFirst(s, {i \in 0..(Len(s) - 1) : ExtMatchAt(s, i) # None})

\* norm of _normalize_phone for the stripped string
NormOf(stripped) ==
    IF StartsAt(stripped, "+", 0)
    THEN "+" \o KeepChars(stripped, Digits)
    ELSE KeepChars(stripped, Digits)

\* _normalize_phone(s) = (main_number, ext)
_normalize_phone(s) == <<NormOf(Strip(s)), ExtSearch(s)>>

_looks_like_tracking_id(original, normalized) ==
    LET sep_in_original ==
            \E i \in 1..Len(original) :
                CharAt(original, i) \in Spaces \cup {"(", ")", ".", "-"}
    IN  /\ ~StartsAt(Strip(original), "+", 0)
        /\ ~sep_in_original
        /\ Len(normalized) >= 12

AllDigits(s) == \A i \in 1..Len(s) : CharAt(s, i) \in Digits

\* A plausible slip: the upper limit on a number without "+" is forgotten.
MutValidNoUpperLimit(norm) ==
    IF StartsAt(norm, "+", 0)
    THEN /\ Len(norm) >= 8 /\ Len(norm) <= 16
         /\ CharAt(norm, 2) \in Digits \ {"0"}
         /\ AllDigits(Tail(norm))
    ELSE AllDigits(norm) /\ Len(norm) >= 7

\* Lines 391-398: re.fullmatch(r'\+[1-9]\d{6,14}', norm) for a number with
\* "+", re.fullmatch(r'\d{7,12}', norm) otherwise.
ValidNumber(norm) ==
    IF StartsAt(norm, "+", 0)
    THEN /\ Len(norm) >= 8 /\ Len(norm) <= 16
         /\ CharAt(norm, 2) \in Digits \ {"0"}
         /\ AllDigits(Tail(norm))
    ELSE AllDigits(norm) /\ Len(norm) >= 7 /\ Len(norm) <= 12

\* Line 402
window == 6

\* Lines 403-405: text[start:end] for start = max(0, found - window)
AroundFrom(text, original, start) ==
    Slice(text, start, start + Len(original) + 2 * window)

Around(text, original, found) ==
    AroundFrom(text, original, IF found - window > 0 THEN found - window ELSE 0)

\* Lines 402-406: is there a currency hint in the window around the first
\* occurrence of the chunk in the text?
InCurrencyWindow(text, original) ==
    _text_has(Around(text, original, Find(text, original)), CURRENCY_HINTS)

\* Lines 382-411 for one candidate, given (norm, ext) = ne: the final string,
\* or None when the candidate is rejected.
PhoneOfNormalized(text, original, ne) ==
    IF ne[1] = "" THEN None
    ELSE IF _looks_like_tracking_id(original, ne[1]) THEN None
    ELSE IF ~ValidNumber(ne[1]) THEN None
    ELSE IF InCurrencyWindow(text, original) THEN None
    ELSE IF ne[2] = None THEN ne[1] ELSE ne[1] \o " x" \o ne[2]

\* Lines 379-411 for one candidate
PhoneOfChunk(text, original) ==
    PhoneOfNormalized(text, original, _normalize_phone(original))

RECURSIVE PhonesOfChunks(_, _, _)
RECURSIVE PhonesAppend(_, _, _, _)
\* The loop of lines 379-415 over the candidates
PhonesOfChunks(text, chunks, seen) ==
    IF chunks = <<>> THEN <<>>
    ELSE PhonesAppend(text, chunks, seen, PhoneOfChunk(text, Head(chunks)))

\* Lines 413-415 for the final string of the first candidate
PhonesAppend(text, chunks, seen, final) ==
    IF final = None \/ final \in seen
    THEN PhonesOfChunks(text, Tail(chunks), seen)
    ELSE <<final>> \o PhonesOfChunks(text, Tail(chunks), seen \cup {final})

\* A plausible slip: the loose chunks are added to the context chunks.
MutCandidatesBoth(text, ctx) == ctx \o LooseChunksFrom(text, 0)

\* Lines 370-374: the loose chunks are used only when there is no context chunk
CandidatesOf(text, ctx) == IF ctx # <<>> THEN ctx ELSE LooseChunksFrom(text, 0)

\* The candidates of lines 362-374
PhoneCandidates(text) == CandidatesOf(text, ContextChunksFrom(text, 0))

extract_phones(text) == PhonesOfChunks(text, PhoneCandidates(text), {})

(***************************************************************************)
(* Specification SpecPhones: calls of extract_phones                       *)
(***************************************************************************)
MaxPhonePieces == 4
MaxDigitRun == 40

\* The texts are concatenations of these pieces (a "+", leading digits, a
\* seven digit block, a separator, context words before and after, an
\* extension, a currency sign), and the uninterrupted runs of one digit.
PhonePieces == {"+", "1", "0", "5550199", " ", "tel:", " call", " ext 12", "$"}

RECURSIVE DigitRun(_)
DigitRun(n) == IF n = 0 THEN "" ELSE "1" \o DigitRun(n - 1)

\* The texts of at most n pieces and the digit runs of at most m digits
PhoneTexts(n, m) ==
    ConcatsUpTo(PhonePieces, n) \cup {DigitRun(k) : k \in 0..m}

InitPhones ==
    /\ pc = "call"
    /\ input \in [fn : {"extract_phones"}, text : PhoneTexts(MaxPhonePieces, MaxDigitRun)]
    /\ result = None

CallPhones ==
    /\ pc = "call"
    /\ input.fn = "extract_phones"
    /\ result' = extract_phones(input.text)
    /\ pc' = "return"
    /\ UNCHANGED input

NextPhones == CallPhones

SpecPhones == InitPhones /\ [][NextPhones]_vars

(***************************************************************************)
(* Properties of extract_phones (SpecPhones)                               *)
(***************************************************************************)
PhonesReturned == pc = "return" /\ input.fn = "extract_phones"

\* "+", a digit 1-9 and 6 to 14 further digits, or 7 to 12 digits
IsMainNumber(m) ==
    \/ /\ Len(m) >= 8 /\ Len(m) <= 16
       /\ CharAt(m, 1) = "+"
       /\ CharAt(m, 2) \in {"1", "2", "3", "4", "5", "6", "7", "8", "9"}
       /\ \A i \in 3..Len(m) : CharAt(m, i) \in Digits
    \/ /\ Len(m) >= 7 /\ Len(m) <= 12
       /\ \A i \in 1..Len(m) : CharAt(m, i) \in Digits

\* A main number, optionally followed by " x" and 1 to 5 digits
IsPhoneShape(r) ==
    \/ IsMainNumber(r)
    \/ \E k \in 1..Len(r) :
          /\ IsMainNumber(SubSeq(r, 1, k - 1))
          /\ SubSeq(r, k, k + 1) = " x"
          /\ Len(r) - (k + 1) \in 1..5
          /\ \A i \in (k + 2)..Len(r) : CharAt(r, i) \in Digits

\* C6: every string returned by extract_phones is a main number ("+", a digit
\* 1-9 and 6 to 14 digits, or 7 to 12 digits without "+"), optionally
\* followed by " x" and 1 to 5 digits, and holds no other character.
C6_PhoneShape ==
    PhonesReturned => \A k \in 1..Len(result) : IsPhoneShape(result[k])

\* A text with an eight digit number after "+" and a context word: it is returned.
C6_Witness ==
    /\ PhonesReturned
    /\ input.text = "tel:+15550199"
    /\ result = <<"+15550199">>

\* C7 (as claimed): a text that is one uninterrupted run of 12 or more digits
\* yields no phone number, whatever its length.
C7_NoPhoneFromDigitRun ==
    PhonesReturned /\ Len(input.text) >= 12 /\ AllDigits(input.text) => result = <<>>

(***************************************************************************)
(* find_signature_start                                                    *)
(***************************************************************************)
\* The courtesy separators of self.signature_separators, lines 55-57, as
\* <<w, c>> for the pattern ^w c? [,!]? \s* $  (c is "" when the pattern has
\* no optional letter).
CourtesySeparators ==
    {<<"thank", "s">>, <<"best", "">>, <<"regard", "s">>, <<"sincerely", "">>,
     <<"cheer", "s">>, <<"warm regard", "s">>, <<"kind regard", "s">>,
     <<"best regard", "s">>}

\* [,!]?\s*$ from index p of s
SeparatorTail(s, p) ==
    \/ RunEnd(s, p, Spaces) = Len(s)
    \/ /\ p < Len(s)
       /\ CharAt(s, p + 1) \in {",", "!"}
       /\ RunEnd(s, p + 1, Spaces) = Len(s)

\* re.match of one courtesy separator pattern, under re.IGNORECASE
MatchesCourtesy(s, wc) ==
    /\ MatchesWordAt(s, wc[1], 0)
    /\ \/ SeparatorTail(s, Len(wc[1]))
       \/ /\ wc[2] # ""
          /\ MatchesWordAt(s, wc[2], Len(wc[1]))
          /\ SeparatorTail(s, Len(wc[1]) + 1)

\* any(re.match(p, line, re.IGNORECASE) for p in self.signature_separators)
IsSeparatorLine(line) ==
    \/ /\ Len(line) >= 2
       /\ \A i \in 1..Len(line) : CharAt(line, i) \in Spaces \cup {"_", "*", "=", "-"}
    \/ StartsAt(line, "--", 0) /\ RunEnd(line, 2, Spaces) = Len(line)
    \/ \E wc \in CourtesySeparators : MatchesCourtesy(line, wc)

\* The alternatives of the courtesy pattern of line 295
CourtesyWords ==
    {"best", "regards", "sincerely", "thank you", "thanks", "cheers",
     "warm regards", "kind regards", "best regards"}

\* re.search(r'\b(Best|Regards|...)\b', line, re.IGNORECASE)
HasCourtesyWord(line) ==
    \E i \in 0..(Len(line) - 1) : \E w \in CourtesyWords :
        /\ Boundary(line, i)
        /\ MatchesWordAt(line, w, i)
        /\ Boundary(line, i + Len(w))

\* [\s.-]? at index p: the indices at which the pattern may continue
AfterOptional(s, p, chars) ==
    {p} \cup (IF p < Len(s) /\ CharAt(s, p + 1) \in chars THEN {p + 1} ELSE {})

\* \d{lo,hi} at index p: the indices at which the pattern may continue
AfterDigits(s, p, lo, hi) ==
    {p + k : k \in {n \in lo..hi : p + n <= RunEnd(s, p, Digits)}}

\* re.search(self.phone_pattern, line).  The leading group
\* (?:\+?\d{1,3}[\s.-]?)?, the \(? and the trailing extension group are
\* optional, so a match exists exactly when the required part
\* \d{2,4}\)?[\s.-]?\d{3,4}[\s.-]?\d{3,4} matches somewhere.
HasPhone(line) ==
    \E i \in 0..(Len(line) - 1) :
      \E a \in AfterDigits(line, i, 2, 4) :
        \E b \in AfterOptional(line, a, {")"}) :
          \E c \in AfterOptional(line, b, Spaces \cup {".", "-"}) :
            \E d \in AfterDigits(line, c, 3, 4) :
              \E e \in AfterOptional(line, d, Spaces \cup {".", "-"}) :
                AfterDigits(line, e, 3, 4) # {}

\* range(len(lines) - 1, max(0, len(lines) - w), -1): the 0-based indices
\* the loop over a window w visits
WindowIndices(n, w) == ((IF n - w > 0 THEN n - w ELSE 0) + 1)..(n - 1)

\* A plausible slip: max(0, ...) is forgotten on line 299.
MutBackFive(i) == i - 5

\* max(0, i - 5), line 299
BackFive(i) == IF i - 5 > 0 THEN i - 5 ELSE 0

\* The return value given the indices at which each loop's test holds
StartOfTiers(n, t1, t2, t3) ==
    IF t1 # {} THEN Max(t1)
    ELSE IF t2 # {} THEN Max(t2)
    ELSE IF t3 # {} THEN BackFive(Max(t3))
    ELSE IF n - 15 > 0 THEN n - 15 ELSE 0

\* The three loop tests of find_signature_start on one line: line 292,
\* line 295 and line 298
LineTestsOf(line) ==
    [separator |-> IsSeparatorLine(Strip(line)),
     courtesy  |-> HasCourtesyWord(line),
     contact   |-> HasEmail(line) \/ HasPhone(line)]

\* A cleaned line that matches none of the patterns
PlainLine == "John Smith"

\* Cleaned lines that match a pattern of a tier: a separator, a courtesy
\* word inside a sentence, an email address
MarkedLines == {"--", "Thanks for your help", "john@acme.com"}

\* The lines the documents below are made of, and their tests, computed once
DocumentLines == {PlainLine} \cup MarkedLines
DocumentLineTests == [line \in DocumentLines |-> LineTestsOf(line)]

LineTests(line) ==
    IF line \in DocumentLines THEN DocumentLineTests[line] ELSE LineTestsOf(line)

find_signature_start(lines) ==
    StartOfTiers(Len(lines),
        {i \in WindowIndices(Len(lines), 30) : LineTests(lines[i + 1]).separator},
        {i \in WindowIndices(Len(lines), 25) : LineTests(lines[i + 1]).courtesy},
        {i \in WindowIndices(Len(lines), 20) : LineTests(lines[i + 1]).contact})

\* lines[i:] for a list: a negative index counts from the end, and an index
\* outside the list is clamped to it
ListFrom(lines, i) ==
    IF i >= Len(lines) THEN <<>>
    ELSE IF i >= 0 THEN SubSeq(lines, i + 1, Len(lines))
    ELSE IF Len(lines) + i > 0 THEN SubSeq(lines, Len(lines) + i + 1, Len(lines))
    ELSE lines

\* Lines 650-651 of extract_signature: the signature block of the cleaned lines
SignatureBlock(lines, sig_start) ==
    [sig_start |-> sig_start, sig_lines |-> ListFrom(lines, sig_start)]

(***************************************************************************)
(* Specification SpecBoundary: the signature block of cleaned lines        *)
(* (find_signature_start and lines 650-651 of extract_signature)           *)
(***************************************************************************)
MaxLines == 31


\* The documents of n lines with line a at index i, line b at index j (0-based;
\* the index n stands for "nowhere") and plain lines elsewhere
DocumentOf(n, i, a, j, b) ==
    [k \in 1..n |-> IF k - 1 = i THEN a ELSE IF k - 1 = j THEN b ELSE PlainLine]

\* The cleaned documents of at most maxLines lines with at most two marked lines
Documents(maxLines) ==
    {DocumentOf(t[1], t[2], ab[1], t[3], ab[2]) :
        t \in {u \in (0..maxLines) \X (0..maxLines) \X (0..maxLines) :
                   u[2] <= u[3] /\ u[3] <= u[1]},
        ab \in MarkedLines \X MarkedLines}

InitBoundary ==
    /\ pc = "call"
    /\ input \in [fn : {"find_signature_start"}, lines : Documents(MaxLines)]
    /\ result = None

CallBoundary ==
    /\ pc = "call"
    /\ input.fn = "find_signature_start"
    /\ result' = SignatureBlock(input.lines, find_signature_start(input.lines))
    /\ pc' = "return"
    /\ UNCHANGED input

NextBoundary == CallBoundary

SpecBoundary == InitBoundary /\ [][NextBoundary]_vars

BoundaryReturned == pc = "return" /\ input.fn = "find_signature_start"

\* The 0-based indices of the last w lines of a document of n lines (all of
\* them, index 0 included, when n <= w)
LastIndices(n, w) == (IF n - w > 0 THEN n - w ELSE 0)..(n - 1)

\* The indices among the last 30 lines whose stripped line is a separator shape
SeparatorIndices(lines) ==
    {i \in LastIndices(Len(lines), 30) : IsSeparatorLine(Strip(lines[i + 1]))}

\* C9: if at least one of the last 30 lines (index 0 included when there
\* are 30 lines or fewer) is a separator shape, find_signature_start returns
\* the highest index of such a line, whatever courtesy-word, email or phone
\* lines follow it.
C9_SeparatorTierWins ==
    (BoundaryReturned /\ SeparatorIndices(input.lines) # {})
        => result.sig_start = Max(SeparatorIndices(input.lines))

\* C10: find_signature_start returns an index i with 0 <= i <= len(lines),
\* i < len(lines) when lines is non-empty; the signature block is the suffix
\* lines[i:] in unchanged order, hence non-empty when the document is.
C10_BlockIsSuffix ==
    BoundaryReturned =>
        /\ result.sig_start \in 0..Len(input.lines)
        /\ input.lines # <<>> => result.sig_start < Len(input.lines)
        /\ Len(result.sig_lines) = Len(input.lines) - result.sig_start
        /\ \A k \in 1..Len(result.sig_lines) :
               result.sig_lines[k] = input.lines[result.sig_start + k]
        /\ input.lines # <<>> => result.sig_lines # <<>>

\* A document whose only marked line is an email address on its fourth line:
\* the block starts five lines earlier, clamped to the first line.
C10_Witness ==
    /\ BoundaryReturned
    /\ input.lines = <<PlainLine, PlainLine, PlainLine, "john@acme.com">>
    /\ result.sig_start = 0
    /\ Len(result.sig_lines) = 4

(***************************************************************************)
(* Library calls of extract_signature and _valid_domain                    *)
(***************************************************************************)
\* email.utils.parseaddr(header) as <<display name, address>>, for headers
\* that are empty, a bare address without whitespace, or a display name
\* followed by an address in angle brackets (possibly "<>").
ParseAddrAt(header, lt) ==
    IF lt = -1 THEN <<"", header>>
    ELSE <<Strip(Slice(header, 0, lt)),
           Slice(header, lt + 1, lt + Find(From(header, lt), ">"))>>

ParseAddr(header) == ParseAddrAt(header, Find(header, "<"))

\* The characters of a URL scheme
SchemeChars == Letters \cup Digits \cup {"+", "-", "."}

\* The URL without its "scheme://" (or "//") prefix; k is url.find("://")
SchemelessAt(url, k) ==
    IF StartsAt(url, "//", 0) THEN From(url, 2)
    ELSE IF k > 0 /\ \A i \in 1..k : CharAt(url, i) \in SchemeChars THEN From(url, k + 3)
    ELSE url

\* s.partition(c)[0] for each c of chars in turn: s up to the first of them
RECURSIVE BeforeAny(_, _)
BeforeAny(s, chars) ==
    IF s = "" \/ Head(s) \in chars THEN "" ELSE Head(s) \o BeforeAny(Tail(s), chars)

\* s.rpartition(c)[-1]
RECURSIVE AfterLast(_, _)
AfterLast(s, c) ==
    IF Contains(s, c) THEN AfterLast(From(s, Find(s, c) + 1), c) ELSE s

\* tldextract's host of a URL: scheme, path, query, fragment, user
\* information and port removed, surrounding blanks and final dots stripped
LenientNetloc(url) ==
    RStrip(Strip(BeforeAny(AfterLast(BeforeAny(SchemelessAt(url, Find(url, "://")),
                                               {"/", "?", "#"}), "@"), {":"})), {"."})

\* The entries of the public suffix list the modelled hosts fall under
PublicSuffixes == {"com", "org", "io", "uk", "co.uk"}

\* The fields of tldextract's result when the suffix starts at the 0-based
\* label index si (len(labels) when no suffix is recognised); case is kept
ExtractAt(labels, si) ==
    [subdomain |-> IF si >= 2 THEN Join(SubSeq(labels, 1, si - 1), ".") ELSE "",
     domain    |-> IF si >= 1 THEN labels[si] ELSE "",
     suffix    |-> Join(SubSeq(labels, si + 1, Len(labels)), ".")]

\* The label indices at which a recognised public suffix starts
SuffixStarts(labels) ==
    {i \in 0..(Len(labels) - 1) :
        Lower(Join(SubSeq(labels, i + 1, Len(labels)), ".")) \in PublicSuffixes}

ExtractLabels(labels, starts) ==
    ExtractAt(labels, IF starts = {} THEN Len(labels) ELSE Min(starts))

ExtractOf(labels) == ExtractLabels(labels, SuffixStarts(labels))

\* tldextract.extract(url): the longest recognised public suffix of the host,
\* the label before it, and the labels before that
TldExtract(url) == ExtractOf(SplitOn(LenientNetloc(url), {"."}))

(***************************************************************************)
(* _clean_token and _valid_domain                                          *)
(***************************************************************************)
TRACKING_HINTS ==
    {"utm_", "trk", "track", "click", "email", "unsubscribe", "mandrillapp",
     "sendgrid", "mailchimp", "list-manage", "t.sidekick", "link.track",
     "protector", "r20.rs6.net", "emltrk", "sfmc", "postmarkapp", "sparkpost",
     "amazonses"}

\* w.strip(".,;·*()[]{}<>|\"'")
_clean_token(w) ==
    StripChars(w, {".", ",", ";", "·", "*", "(", ")", "[", "]", "{", "}", "<", ">",
                   "|", "\"", "'"})

HasDigit(s) == \E i \in 1..Len(s) : CharAt(s, i) \in Digits
HasAlpha(s) == \E i \in 1..Len(s) : CharAt(s, i) \in Letters

\* ".".join(part for part in parts if part)
JoinNonEmpty(parts) == Join(SelectSeq(parts, NonEmpty), ".")

\* Lines 173-184 of _valid_domain, for the result ext of tldextract
ValidRegistered(ext, registered) ==
    IF ext.suffix = "" THEN None
    ELSE IF registered = "" THEN None
    ELSE IF _text_has(JoinNonEmpty(<<ext.subdomain, ext.domain, ext.suffix>>),
                      TRACKING_HINTS) THEN None
    ELSE Lower(registered)

ValidExtract(ext) == ValidRegistered(ext, JoinNonEmpty(<<ext.domain, ext.suffix>>))

\* Lines 159-172 of _valid_domain, for the cleaned token
ValidToken(token) ==
    IF token = "" \/ Contains(token, "@") THEN None
    ELSE IF _text_has(token, CURRENCY_HINTS) THEN None
    ELSE IF HasDigit(token) /\ ~HasAlpha(token) THEN None
    ELSE IF StartsAt(token, "http://", 0) \/ StartsAt(token, "https://", 0)
         THEN ValidExtract(TldExtract(token))
    ELSE ValidExtract(TldExtract("http://" \o token))

_valid_domain(token) == ValidToken(_clean_token(token))

(***************************************************************************)
(* The sender of extract_signature, lines 635-644                          *)
(***************************************************************************)
\* Python truth of an optional string
Truthy(x) == x # None /\ x # ""

\* sender_email: None without a header
SenderEmail(sender_header) ==
    IF Truthy(sender_header) THEN ParseAddr(sender_header)[2] ELSE None

\* Lines 642-644: the registered domain of tldextract's result, if it has a suffix
SenderRegistered(ext) ==
    IF ext.suffix # "" THEN JoinNonEmpty(<<ext.domain, ext.suffix>>) ELSE None

SenderDomainOf(sender_email) ==
    IF Truthy(sender_email) /\ Contains(sender_email, "@")
    THEN SenderRegistered(
             TldExtract(Lower(From(sender_email, Find(sender_email, "@") + 1))))
    ELSE None

SenderDomain(sender_header) == SenderDomainOf(SenderEmail(sender_header))

(***************************************************************************)
(* _extract_links_and_text                                                 *)
(***************************************************************************)
\* The raw body is modelled by what BeautifulSoup yields from it: hrefs, the
\* href attributes of its anchors in document order, and text_lines, the
\* lines of soup.get_text(separator="\n") (text.splitlines()).  A body whose
\* text is blank has no text for html2text either.
\* COPYRIGHT_WORDS, without the trade mark sign U+2122, which a string of
\* this module cannot hold; no modelled line contains it
COPYRIGHT_WORDS ==
    {"copyright", "©", "all rights reserved", "rights reserved", "®"}

UNSUB_WORDS ==
    {"unsubscribe", "opt-out", "optout", "privacy policy", "terms of service",
     "click here"}

\* The literal heads of self.metadata_patterns; each pattern is head\s*.+$
\* or head.+$, so it matches a line that starts with the head (in any letter
\* case) and has at least one more character
MetadataHeads ==
    {"from:", "sent:", "to:", "subject:", "date:", "cc:", "bcc:",
     "**from:**", "**sent:**", "**to:**", "**subject:**"}

\* any(re.match(p, line, re.IGNORECASE) for p in self.metadata_patterns)
IsMetadataLine(line) ==
    \E head \in MetadataHeads : MatchesWordAt(line, head, 0) /\ Len(line) > Len(head)

NotMetadataLine(line) == ~IsMetadataLine(line)

\* Lines 238-242: for every anchor, the valid domain of its href cut at "?"
RECURSIVE LinkDomains(_)
LinkDomainsAppend(dom, rest) == IF Truthy(dom) THEN <<dom>> \o rest ELSE rest

LinkDomains(hrefs) ==
    IF hrefs = <<>> THEN <<>>
    ELSE LinkDomainsAppend(_valid_domain(BeforeAny(Head(hrefs), {"?"})),
                           LinkDomains(Tail(hrefs)))

\* Lines 259-271: does the stripped line survive the first loop?
KeptLower(line, lcl) ==
    /\ line # ""
    /\ Len(line) <= 200
    /\ \A x \in UNSUB_WORDS \cup COPYRIGHT_WORDS : ~Contains(lcl, x)
    /\ ~(_text_has(lcl, CURRENCY_HINTS) /\ HasDigit(lcl))

KeptLine(line) == KeptLower(line, Lower(line))

RECURSIVE MapStrip(_)
MapStrip(seq) == IF seq = <<>> THEN <<>> ELSE <<Strip(Head(seq))>> \o MapStrip(Tail(seq))

\* Lines 280-284: consecutive duplicates removed
RECURSIVE DedupConsecutive(_, _)
DedupConsecutive(seq, prev) ==
    IF seq = <<>> THEN <<>>
    ELSE IF Head(seq) = prev THEN DedupConsecutive(Tail(seq), prev)
    ELSE <<Head(seq)>> \o DedupConsecutive(Tail(seq), Head(seq))

\* The cleaned lines, the second component of _extract_links_and_text
CleanedLines(text_lines) ==
    DedupConsecutive(
        SelectSeq(SelectSeq(MapStrip(text_lines), KeptLine), NotMetadataLine), None)

(***************************************************************************)
(* extract_websites                                                        *)
(***************************************************************************)
\* s.split(): the maximal runs of non-blank characters
RECURSIVE SplitWhitespace(_)
SplitWord(rest, word) == <<word>> \o SplitWhitespace(From(rest, Len(word)))

SplitRest(rest) ==
    IF rest = "" THEN <<>> ELSE SplitWord(rest, BeforeAny(rest, Spaces))

SplitWhitespace(s) == SplitRest(LStrip(s, Spaces))

\* Lines 431-436 for one cleaned token
TokenDomains(token) ==
    IF ~Contains(token, ".") \/ Contains(token, "@") THEN <<>>
    ELSE LinkDomainsAppend(_valid_domain(token), <<>>)

RECURSIVE WordDomains(_)
WordDomains(words) ==
    IF words = <<>> THEN <<>>
    ELSE TokenDomains(_clean_token(Head(words))) \o WordDomains(Tail(words))

RECURSIVE TextDomains(_)
TextDomains(lines) ==
    IF lines = <<>> THEN <<>>
    ELSE WordDomains(SplitWhitespace(Head(lines))) \o TextDomains(Tail(lines))

extract_websites(body, lines, sender_domain) ==
    _prefer_website(Dedup(LinkDomains(body.hrefs) \o TextDomains(lines), {}),
                    sender_domain)

(***************************************************************************)
(* extract_company_name                                                    *)
(***************************************************************************)
\* LEGAL_SUFFIXES, in the order of the alternation
LEGAL_SUFFIXES ==
    <<"Inc", "Inc.", "LLC", "Ltd", "Ltd.", "Corp", "Corporation", "Company", "Co.",
      "GmbH", "Pvt", "Private Limited", "LLP", "PLC", "S.A.", "SAS", "BV", "AG",
      "Oy", "AB">>

\* [\w&.,\- ]
LegalChars == WordChars \cup {"&", ".", ",", "-", " "}

\* \.?\b from index e: the greedy optional dot first, then without it
LegalTailEnd(s, e) ==
    IF e < Len(s) /\ CharAt(s, e + 1) = "." /\ Boundary(s, e + 1) THEN e + 1
    ELSE IF Boundary(s, e) THEN e
    ELSE -1

\* (?:suffixes)\.?\b at index p: the end of the first alternative, from the
\* k-th on, after which the tail matches; -1 when there is none
RECURSIVE LegalSuffixEnd(_, _, _)
LegalSuffixEnd(s, p, k) ==
    IF k > Len(LEGAL_SUFFIXES) THEN -1
    ELSE IF /\ StartsAt(s, LEGAL_SUFFIXES[k], p)
            /\ LegalTailEnd(s, p + Len(LEGAL_SUFFIXES[k])) # -1
         THEN LegalTailEnd(s, p + Len(LEGAL_SUFFIXES[k]))
    ELSE LegalSuffixEnd(s, p, k + 1)

\* The positions at which the lazy [\w&.,\- ]{1,100}? that follows the capital
\* at index i may stop with the rest of the pattern matching
LegalStops(s, i) ==
    {p \in (i + 2)..Min({i + 101, RunEnd(s, i + 1, LegalChars)}) :
        Boundary(s, p) /\ LegalSuffixEnd(s, p, 1) # -1}

\* The starts of a match of the legal-suffix pattern
LegalStarts(s) ==
    {i \in 0..(Len(s) - 1) : CharAt(s, i + 1) \in UpperLetters /\ LegalStops(s, i) # {}}

\* m.group(1) of re.search(pattern, line), for the leftmost start i
LegalGroup(s, i) == Slice(s, i, LegalSuffixEnd(s, Min(LegalStops(s, i)), 1))

\* re.sub(r'\s{2,}', ' ', s)
RECURSIVE CollapseBlanks(_)
CollapseRun(s, e) ==
    IF e >= 2 THEN " " \o CollapseBlanks(From(s, e))
    ELSE Head(s) \o CollapseBlanks(Tail(s))

CollapseBlanks(s) == IF s = "" THEN "" ELSE CollapseRun(s, RunEnd(s, 0, Spaces))

RECURSIVE AllHaveAlpha(_)
\* all(any(ch.isalpha() for ch in w) for w in words)
AllHaveAlpha(words) == words = <<>> \/ (HasAlpha(Head(words)) /\ AllHaveAlpha(Tail(words)))

\* Lines 554-557: the short phrase that looks like a brand
BrandPhrase(line, words) ==
    IF /\ Len(words) >= 1 /\ Len(words) <= 6
       /\ AllHaveAlpha(words)
       /\ ~_text_has(line, {"dear", "thanks", "regards", "hello", "team", "support"})
    THEN StripChars(line, {" ", ".", ",", "|", "-"})
    ELSE None

LegalPhrase(line, starts) ==
    IF starts # {}
    THEN StripChars(CollapseBlanks(LegalGroup(line, Min(starts))), {" ", ",", ".", "-"})
    ELSE BrandPhrase(line, SplitWhitespace(line))

_extract_company_from_line(line) ==
    IF _text_has(line, COPYRIGHT_WORDS) \/ _text_has(line, CURRENCY_HINTS) THEN None
    ELSE IF Len(line) > 120 \/ Len(line) < 3 THEN None
    ELSE LegalPhrase(line, LegalStarts(line))

\* re.findall(r"[A-Za-z0-9.-]+\.[A-Za-z]{2,}", s) is non-empty: a dot after a
\* host character and before two letters
HasBareDomain(s) ==
    \E p \in 1..(Len(s) - 3) :
        /\ CharAt(s, p) \in EmailHostChars
        /\ CharAt(s, p + 1) = "."
        /\ CharAt(s, p + 2) \in Letters
        /\ CharAt(s, p + 3) \in Letters

_looks_like_email_or_url(s) ==
    \/ Contains(s, "@")
    \/ Contains(Lower(s), "http://") \/ Contains(Lower(s), "https://")
    \/ \E i \in 0..(Len(s) - 1) : Boundary(s, i) /\ MatchesWordAt(s, "www.", i)
    \/ HasBareDomain(s)

\* w[0].upper() + w[1:] for each word, joined by " "
RECURSIVE UpperFirsts(_)
UpperFirsts(words) ==
    IF words = <<>> THEN <<>>
    ELSE <<UpperChar(Head(Head(words))) \o Tail(Head(words))>> \o UpperFirsts(Tail(words))

\* Lines 576-582: the candidate of one line in the legal-suffix loop
LegalLineCompany(line) ==
    IF _text_has(line, {"dear", "hello", "hi,", "regards", "thanks"}) THEN None
    ELSE IF _looks_like_email_or_url(line) THEN None
    ELSE _extract_company_from_line(line)

\* Lines 586-598: the candidate of one line in the short-phrase loop
ShortWords(l, words) ==
    IF Len(words) >= 1 /\ Len(words) <= 4 /\ AllHaveAlpha(words)
    THEN Join(UpperFirsts(words), " ")
    ELSE None

ShortLineCompany(line, l) ==
    IF _looks_like_email_or_url(line) THEN None
    ELSE IF _text_has(l, {"team", "support", "helpdesk", "noreply", "no-reply"}) THEN None
    ELSE IF _text_has(l, {"copyright", "©", "all rights reserved"}) THEN None
    ELSE IF _text_has(Lower(l), CURRENCY_HINTS) /\ HasDigit(l) THEN None
    ELSE ShortWords(l, SplitWhitespace(l))

\* The first truthy candidate of the loops over lines[:12]
RECURSIVE FirstShort(_)
FirstShortOr(cand, rest) == IF Truthy(cand) THEN cand ELSE FirstShort(rest)

FirstShort(lines) ==
    IF lines = <<>> THEN None
    ELSE FirstShortOr(ShortLineCompany(Head(lines), Strip(Head(lines))), Tail(lines))

RECURSIVE FirstLegal(_, _)
FirstLegalOr(cand, rest, all) == IF Truthy(cand) THEN cand ELSE FirstLegal(rest, all)

FirstLegal(lines, all) ==
    IF lines = <<>> THEN FirstShort(all)
    ELSE FirstLegalOr(LegalLineCompany(Head(lines)), Tail(lines), all)

\* A plausible slip: the brand of the sender domain is ignored.
MutCompanyFromBody(brand, lines) == FirstLegal(lines, lines)

CompanyOf(brand, lines) ==
    IF Truthy(brand) THEN brand ELSE FirstLegal(lines, lines)

extract_company_name(lines, sender_domain) ==
    CompanyOf(_brand_from_registered_domain(sender_domain),
              SubSeq(lines, 1, Min({12, Len(lines)})))

(***************************************************************************)
(* self.website_pattern                                                    *)
(***************************************************************************)
HostChars == Letters \cup Digits \cup {"-"}

\* Can [a-zA-Z0-9][-a-zA-Z0-9]* end at index p, coming from an index before?
RECURSIVE HostEndsAt(_, _)
HostEndsAt(s, p) ==
    /\ p >= 1
    /\ CharAt(s, p) \in HostChars
    /\ (CharAt(s, p) \in Letters \cup Digits \/ HostEndsAt(s, p - 1))

\* re.search(self.website_pattern, s): the scheme, www. and the path are
\* optional, so a match exists exactly when [a-zA-Z0-9][-a-zA-Z0-9]*\.[a-zA-Z]{2,}
\* matches somewhere
HasWebsite(s) ==
    \E p \in 1..(Len(s) - 3) :
        /\ CharAt(s, p + 1) = "."
        /\ CharAt(s, p + 2) \in Letters
        /\ CharAt(s, p + 3) \in Letters
        /\ HostEndsAt(s, p)

(***************************************************************************)
(* extract_job_title                                                       *)
(***************************************************************************)
\* Lines 455-459: head_nouns, matched with re.IGNORECASE
head_nouns ==
    {"manager", "director", "engineer", "coordinator", "architect", "analyst",
     "designer", "officer", "executive", "developer", "consultant",
     "specialist", "administrator", "supervisor", "owner", "founder",
     "president"}

\* Line 462: seniority
seniority ==
    {"senior", "sr.", "junior", "jr.", "lead", "principal", "head", "chief",
     "assistant", "associate"}

\* Lines 474-477: the tokens of csuite_pat
csuite ==
    {"ceo", "cto", "cfo", "coo", "cmo", "cio", "cdo", "cpo", "cso", "chro",
     "ciso", "cro", "vp", "vice president"}

\* The word of words that s has at index i, in any letter case; no word of
\* these tables is the beginning of another one
WordAt(s, i, words) ==
    IF \E w \in words : MatchesWordAt(s, w, i)
    THEN CHOOSE w \in words : MatchesWordAt(s, w, i)
    ELSE ""

IsSpaceAt(s, i) == i < Len(s) /\ CharAt(s, i + 1) \in Spaces

\* (?:seniority\s+) at index i: the index after it, -1 when it does not match
AfterWordAndSpace(s, i, w) ==
    IF w # "" /\ IsSpaceAt(s, i + Len(w)) THEN RunEnd(s, i + Len(w), Spaces) ELSE -1

AfterSeniority(s, i) == AfterWordAndSpace(s, i, WordAt(s, i, seniority))

\* [A-Za-z/&+.-]
ModifierChars == Letters \cup {"/", "&", "+", ".", "-"}

\* (?:[A-Z][A-Za-z/&+.-]{1,20}|[A-Z]{2,6})\s+ at index i (with IGNORECASE
\* [A-Z] is any letter): the token is the whole run of modifier characters up
\* to the white space, -1 when it does not match
AfterModifierRun(s, i, e) ==
    IF /\ i < Len(s)
       /\ CharAt(s, i + 1) \in Letters
       /\ e - i >= 2
       /\ e - i <= 21
       /\ IsSpaceAt(s, e)
    THEN RunEnd(s, e, Spaces) ELSE -1

AfterModifier(s, i) == AfterModifierRun(s, i, RunEnd(s, i, ModifierChars))

\* (?:head_nouns)\b at index i
AfterHeadWord(s, i, w) ==
    IF w # "" /\ Boundary(s, i + Len(w)) THEN i + Len(w) ELSE -1

AfterHead(s, i) == AfterHeadWord(s, i, WordAt(s, i, head_nouns))

\* pre_modifiers (at most n of them, as many as possible) and the head noun
RECURSIVE AfterModifiers(_, _, _)
AfterModifiersFrom(s, i, n, m) ==
    IF m # -1 /\ AfterModifiers(s, m, n - 1) # -1
    THEN AfterModifiers(s, m, n - 1)
    ELSE AfterHead(s, i)

AfterModifiers(s, i, n) ==
    IF n = 0 THEN AfterHead(s, i)
    ELSE AfterModifiersFrom(s, i, n, AfterModifier(s, i))

\* generic_title_pat at index i: the end of its match, -1 when there is none
TitleEndFrom(s, i, a) ==
    IF a # -1 /\ AfterModifiers(s, a, 3) # -1
    THEN AfterModifiers(s, a, 3)
    ELSE AfterModifiers(s, i, 3)

TitleEnd(s, i) ==
    IF Boundary(s, i) THEN TitleEndFrom(s, i, AfterSeniority(s, i)) ELSE -1

\* generic_title_pat.finditer(line): the spans of the matches, leftmost first
RECURSIVE TitleSpans(_, _)
TitleSpansAt(s, i, e) ==
    IF e # -1 THEN <<<<i, e>>>> \o TitleSpans(s, e) ELSE TitleSpans(s, i + 1)

TitleSpans(s, i) ==
    IF i >= Len(s) THEN <<>> ELSE TitleSpansAt(s, i, TitleEnd(s, i))

\* Lines 510-512: the distance from the end of a match to the next punctuation
\* (the en dash and the em dash of the source are in no modelled text)
TitlePunctuation == {",", ".", ";", ":", "|", "-"}

RECURSIVE PunctDistance(_)
PunctDistance(after) ==
    IF after = "" \/ Head(after) \in TitlePunctuation THEN 0
    ELSE 1 + PunctDistance(Tail(after))

\* Lines 513-514: score = (dist, span_len)
TitleScore(line, span) == <<PunctDistance(From(line, span[2])), span[2] - span[1]>>

ScoreLess(a, b) == a[1] < b[1] \/ (a[1] = b[1] /\ a[2] < b[2])

\* Lines 506-517: the first match of the least score
RECURSIVE BestSpan(_, _, _)
BestSpan(line, spans, best) ==
    IF spans = <<>> THEN best
    ELSE BestSpan(line, Tail(spans),
                  IF ScoreLess(TitleScore(line, Head(spans)), TitleScore(line, best))
                  THEN Head(spans) ELSE best)

\* Lines 480-482: _clean_phrase (the em dash is in no modelled text)
_clean_phrase(s) ==
    StripChars(Strip(CollapseBlanks(s)), {",", ".", ";", ":", "-", " "})

\* str.isupper: a cased character, and no lower-case one
IsUpper(s) ==
    /\ \E i \in 1..Len(s) : CharAt(s, i) \in UpperLetters
    /\ \A i \in 1..Len(s) : CharAt(s, i) \notin LowerLetters

\* str.title: a letter after a letter is lowered, every other letter raised
RECURSIVE TitleCase(_, _)
TitleCase(s, after_letter) ==
    IF s = "" THEN ""
    ELSE (IF after_letter THEN LowerChar(Head(s)) ELSE UpperChar(Head(s)))
         \o TitleCase(Tail(s), Head(s) \in Letters)

\* Lines 521-526: acronyms are kept, other tokens get a capital first letter
TitleToken(tok) ==
    IF IsUpper(tok) /\ Len(tok) <= 6 THEN tok
    ELSE UpperChar(Head(tok)) \o Tail(tok)

RECURSIVE TitleTokens(_)
TitleTokens(toks) ==
    IF toks = <<>> THEN <<>> ELSE <<TitleToken(Head(toks))>> \o TitleTokens(Tail(toks))

\* Lines 519-530: the phrase of the best match, none when it is too long
GuardedPhrase(phrase) ==
    IF 2 <= Len(phrase) /\ Len(phrase) <= 60 THEN phrase ELSE None

GenericTitle(line, spans) ==
    IF spans = <<>> THEN None
    ELSE GuardedPhrase(
             Join(TitleTokens(SplitWhitespace(
                 _clean_phrase(Slice(line, BestSpan(line, Tail(spans), Head(spans))[1],
                                     BestSpan(line, Tail(spans), Head(spans))[2])))),
                  " "))

\* csuite_pat.search(line): the leftmost span, <<>> when there is none
CSuiteEnd(s, i) ==
    IF Boundary(s, i)
    THEN AfterHeadWord(s, i, WordAt(s, i, csuite))
    ELSE -1

RECURSIVE CSuiteSpan(_, _)
CSuiteSpan(s, i) ==
    IF i >= Len(s) THEN <<>>
    ELSE IF CSuiteEnd(s, i) # -1 THEN <<i, CSuiteEnd(s, i)>>
    ELSE CSuiteSpan(s, i + 1)

\* Lines 496-498
CSuiteTitle(group) ==
    _clean_phrase(IF IsUpper(group) THEN TitleCase(group, FALSE) ELSE group)

\* Lines 487-493: the lines that are not scanned
SkippedForTitle(line) ==
    HasEmail(line) \/ HasPhone(line) \/ HasWebsite(line) \/ Len(line) < 2

\* Lines 485-530: what a line returns, None when the scan goes on
TitleOfSpan(line, span) ==
    IF span # <<>> THEN CSuiteTitle(Slice(line, span[1], span[2]))
    ELSE GenericTitle(line, TitleSpans(line, 0))

TitleOfLine(line) ==
    IF SkippedForTitle(line) THEN None
    ELSE TitleOfSpan(line, CSuiteSpan(line, 0))

RECURSIVE FirstTitle(_)
FirstTitleOr(title, rest) == IF title # None THEN title ELSE FirstTitle(rest)

FirstTitle(lines) ==
    IF lines = <<>> THEN None ELSE FirstTitleOr(TitleOfLine(Head(lines)), Tail(lines))

\* Lines 441-532
extract_job_title(lines) ==
    FirstTitle(SubSeq(lines, 1, IF Len(lines) < 12 THEN Len(lines) ELSE 12))

(***************************************************************************)
(* extract_address                                                         *)
(***************************************************************************)
\* Lines 615-617: the words of address_keywords, matched with re.IGNORECASE
address_keywords ==
    {"street", "st", "road", "rd", "avenue", "ave", "boulevard", "blvd", "lane",
     "ln", "drive", "dr",
     "suite", "ste", "floor", "fl", "room", "unit", "building", "tower",
     "center", "centre",
     "city", "state", "province", "country", "zip", "postal", "code"}

\* re.search(r'\b(...)\b', line, re.IGNORECASE) for one of the three word lists
HasAddressWord(line) ==
    \E w \in address_keywords :
      \E i \in 0..(Len(line) - Len(w)) :
        /\ Boundary(line, i)
        /\ MatchesWordAt(line, w, i)
        /\ Boundary(line, i + Len(w))

\* Line 618: re.search(r'\d{3,6}', line)
HasDigitRun(line) == \E i \in 0..(Len(line) - 3) : RunEnd(line, i, Digits) >= i + 3

\* re.sub(r'\s+', ' ', s)
RECURSIVE CollapseSpaces(_)
CollapseSpaces(s) ==
    IF s = "" THEN ""
    ELSE IF Head(s) \in Spaces THEN " " \o CollapseSpaces(From(s, RunEnd(s, 0, Spaces)))
    ELSE Head(s) \o CollapseSpaces(Tail(s))

\* Lines 622-625: the lines that are skipped
SkippedForAddress(line_cleaned) ==
    \/ HasEmail(line_cleaned) \/ HasPhone(line_cleaned) \/ HasWebsite(line_cleaned)
    \/ Len(line_cleaned) < 5
    \/ Len(line_cleaned) > 120

\* Lines 627-628: cleaned
CleanedAddress(line_cleaned) ==
    CollapseSpaces(Strip(RemoveChars(line_cleaned, {"|", "[", "]", "{", "}"})))

\* Lines 620-630: address_lines
RECURSIVE AddressLines(_, _)
AddressAppend(address_lines, cleaned) ==
    IF cleaned # "" /\ cleaned \notin Range(address_lines)
    THEN Append(address_lines, cleaned) ELSE address_lines

AddressLinesWith(line_cleaned, rest, address_lines) ==
    IF /\ ~SkippedForAddress(line_cleaned)
       /\ (HasAddressWord(line_cleaned) \/ HasDigitRun(line_cleaned))
    THEN AddressLines(rest, AddressAppend(address_lines, CleanedAddress(line_cleaned)))
    ELSE AddressLines(rest, address_lines)

AddressLines(lines, address_lines) ==
    IF lines = <<>> THEN address_lines
    ELSE AddressLinesWith(Strip(Head(lines)), Tail(lines), address_lines)

\* Line 631
JoinedAddress(address_lines) ==
    IF address_lines = <<>> THEN None
    ELSE Join(SubSeq(address_lines, 1,
                     IF Len(address_lines) < 3 THEN Len(address_lines) ELSE 3), ", ")

\* Lines 612-631
extract_address(lines) == JoinedAddress(AddressLines(lines, <<>>))

(***************************************************************************)
(* Name inference: _simple_name_from_header_or_email and its helpers       *)
(***************************************************************************)
_MINI_ROLE_WORDS ==
    {"support", "help", "hello", "contact", "team", "sales", "marketing", "info",
     "noreply", "no-reply", "donotreply", "newsletter", "alerts", "updates",
     "admin", "hr", "jobs", "career", "careers", "billing", "accounts"}

\* s[0].upper() + s[1:].lower() of the stripped string
CapStripped(s) == IF s = "" THEN s ELSE UpperChar(Head(s)) \o Lower(Tail(s))

_cap(s) == CapStripped(Strip(s))

\* [t for t in disp.split() if any(c.isalpha() for c in t)]
AlphaTokens(disp) == SelectSeq(SplitWhitespace(disp), HasAlpha)

_looks_like_person(disp) ==
    /\ Len(AlphaTokens(Strip(disp))) >= 2
    /\ \A w \in _MINI_ROLE_WORDS : ~Contains(Lower(disp), w)

\* re.split(r'[._\-]+', s): s cut at every run of separators, the empty
\* pieces before a leading and after a trailing run kept
RECURSIVE SplitRuns(_, _)
SplitRunsAfter(s, piece, seps) ==
    IF Len(piece) = Len(s) THEN <<piece>>
    ELSE <<piece>> \o SplitRuns(From(s, RunEnd(s, Len(piece), seps)), seps)

SplitRuns(s, seps) == SplitRunsAfter(s, BeforeAny(s, seps), seps)

\* re.search(r'[a-z][A-Z]', s)
HasCamel(s) ==
    \E i \in 1..(Len(s) - 1) :
        CharAt(s, i) \in LowerLetters /\ CharAt(s, i + 1) \in UpperLetters

\* re.sub(r'([a-z])([A-Z])', r'\1 \2', s)
RECURSIVE SpaceCamel(_)
SpaceCamel(s) ==
    IF Len(s) < 2 THEN s
    ELSE IF Head(s) \in LowerLetters /\ CharAt(s, 2) \in UpperLetters
         THEN Head(s) \o " " \o SpaceCamel(Tail(s))
    ELSE Head(s) \o SpaceCamel(Tail(s))

\* [re.sub(r'^\d+|\d+$', '', p) for p in parts]
RECURSIVE TrimEdgeDigits(_)
TrimEdgeDigits(parts) ==
    IF parts = <<>> THEN <<>>
    ELSE <<StripChars(Head(parts), Digits)>> \o TrimEdgeDigits(Tail(parts))

\* Lines 91-92: the camelCase split of a local part without separators
CamelParts(parts) ==
    IF Len(parts) = 1 /\ HasCamel(parts[1])
    THEN SplitWhitespace(SpaceCamel(parts[1]))
    ELSE parts

_split_local_simple(local) ==
    SelectSeq(TrimEdgeDigits(CamelParts(SplitRuns(BeforeAny(local, {"+"}),
                                                  {".", "_", "-"}))),
              HasAlpha)

_is_role_local(local) ==
    \E b \in Range(SplitRuns(Lower(BeforeAny(local, {"+"})), {".", "_", "-"})) :
        b \in _MINI_ROLE_WORDS

\* " ".join([p for p in [first, last] if p]) or None
FullName(first, last) ==
    IF Truthy(first) /\ Truthy(last) THEN first \o " " \o last
    ELSE IF Truthy(first) THEN first
    ELSE IF Truthy(last) THEN last
    ELSE None

NameTriple(first, last) == <<first, last, FullName(first, last)>>

\* Lines 109-122 of _name_from_email_simple
NameOfParts(parts) ==
    IF parts = <<>> THEN <<None, None, None>>
    ELSE IF Len(parts) = 1 THEN NameTriple(_cap(parts[1]), None)
    ELSE NameTriple(_cap(parts[1]), _cap(parts[Len(parts)]))

NameOfLocal(local) ==
    IF _is_role_local(local) THEN <<None, None, None>>
    ELSE NameOfParts(_split_local_simple(local))

_name_from_email_simple(email_addr) ==
    IF ~Truthy(email_addr) \/ ~Contains(email_addr, "@") THEN <<None, None, None>>
    ELSE NameOfLocal(BeforeAny(email_addr, {"@"}))

\* Lines 131-136: the name of a display name that looks like a person
NameOfTokens(toks) ==
    NameTriple(_cap(toks[1]), IF Len(toks) > 1 THEN _cap(toks[Len(toks)]) ELSE None)

\* Lines 137-141: the email whose local part is used
FallbackEmail(fallback_email, addr) ==
    IF ~Truthy(fallback_email) /\ addr # "" THEN addr ELSE fallback_email

NameOfDisplay(disp, addr, fallback_email) ==
    IF _looks_like_person(disp) /\ AlphaTokens(disp) # <<>>
    THEN NameOfTokens(AlphaTokens(disp))
    ELSE _name_from_email_simple(FallbackEmail(fallback_email, addr))

NameOfParsed(parsed, fallback_email) ==
    NameOfDisplay(StripChars(parsed[1], {" ", "\"", "'", "|", ",", ";", "(", ")", "[", "]"}),
                  parsed[2], fallback_email)

_simple_name_from_header_or_email(sender_header, fallback_email) ==
    IF Truthy(sender_header) THEN NameOfParsed(ParseAddr(sender_header), fallback_email)
    ELSE _name_from_email_simple(fallback_email)

(***************************************************************************)
(* extract_signature                                                       *)
(***************************************************************************)
\* A plausible slip: an address found in the body is preferred to the header's.
MutEmailBodyFirst(sender_email, emails) ==
    IF emails # <<>> THEN emails[1]
    ELSE IF Truthy(sender_email) THEN sender_email
    ELSE None

\* Line 669: email_addr
EmailAddr(sender_email, emails) ==
    IF Truthy(sender_email) THEN sender_email
    ELSE IF emails # <<>> THEN emails[1]
    ELSE None

\* A plausible slip: only the fields that have a value are put in the record.
MutSignatureRecord(names, email_addr, company_name, job_title, phones, address, website) ==
    [k \in {"firstName", "lastName", "emailAddress", "companyName", "phoneNumber",
            "website"}
          \cup (IF job_title = None THEN {} ELSE {"jobTitle"})
          \cup (IF address = None THEN {} ELSE {"address"}) |->
        CASE k = "firstName"    -> names[1]
          [] k = "lastName"     -> names[2]
          [] k = "emailAddress" -> email_addr
          [] k = "companyName"  -> company_name
          [] k = "jobTitle"     -> job_title
          [] k = "phoneNumber"  -> IF phones # <<>> THEN phones[1] ELSE None
          [] k = "address"      -> address
          [] k = "website"      -> website]

\* Lines 675-684: the returned record; names is the triple that line 673 unpacks
SignatureRecord(names, email_addr, company_name, job_title, phones, address, website) ==
    [firstName    |-> names[1],
     lastName     |-> names[2],
     emailAddress |-> email_addr,
     companyName  |-> company_name,
     jobTitle     |-> job_title,
     phoneNumber  |-> IF phones # <<>> THEN phones[1] ELSE None,
     address      |-> address,
     website      |-> website]

\* Line 673: the name, from the header and email_addr
SignatureNamed(sender_header, email_addr, company_name, job_title, phones, address, website) ==
    SignatureRecord(_simple_name_from_header_or_email(sender_header, email_addr),
                    email_addr, company_name, job_title, phones, address, website)

\* Lines 655-660: the components, from sig_lines and sig_text
SignatureFields(raw_body, sender_header, sender_email, sender_domain, sig_lines, sig_text) ==
    SignatureNamed(sender_header,
                   EmailAddr(sender_email, extract_emails(sig_text)),
                   extract_company_name(sig_lines, sender_domain),
                   extract_job_title(sig_lines),
                   extract_phones(sig_text),
                   extract_address(sig_lines),
                   extract_websites(raw_body, sig_lines, sender_domain))

SignatureOfBlock(raw_body, sender_header, sender_email, sig_lines) ==
    SignatureFields(raw_body, sender_header, sender_email,
                    SenderDomainOf(sender_email), sig_lines, Join(sig_lines, "\n"))

SignatureOfLines(raw_body, sender_header, sender_email, lines) ==
    SignatureOfBlock(raw_body, sender_header, sender_email,
                     SignatureBlock(lines, find_signature_start(lines)).sig_lines)

extract_signature(raw_body, sender_header) ==
    SignatureOfLines(raw_body, sender_header, SenderEmail(sender_header),
                     CleanedLines(raw_body.text_lines))

(***************************************************************************)
(* Specification SpecSignature: calls of extract_signature                 *)
(***************************************************************************)
MaxBodyLines == 2

\* The sender headers: absent, empty, without an address, a display name
\* with an address, an address whose label is all digits, an address on a
\* subdomain
SenderHeaders ==
    {None, "", "Jane <>", "Jane Doe <jane@acme.com>", "bob@163.com", "al@mail.b.io"}

\* The text lines of the bodies: a separator, a company phrase, a line of
\* domain tokens, a line with an address and a phone number, a token that
\* is a bare public suffix, a quoted header line
BodyTextLines ==
    {"--", "Acme Inc", "www.Acme.com b.io", "sam@x.io, tel: 415 555 0199",
     "UK site: co.uk", "From: kim@b.io"}

\* The anchors of the bodies: none, one link with a query, a link whose
\* query holds a currency code and a mailto link
BodyHrefs ==
    {<<>>, <<"https://www.acme.com/about?ref=1">>,
     <<"http://b.io/?cur=usd", "mailto:sam@x.io">>}

\* The bodies with at most n text lines
Bodies(n) == [hrefs : BodyHrefs, text_lines : SeqsUpTo(BodyTextLines, n)]

InitSignature ==
    /\ pc = "call"
    /\ input \in [fn : {"extract_signature"},
                  raw_body : Bodies(MaxBodyLines),
                  sender_header : SenderHeaders]
    /\ result = None

CallSignature ==
    /\ pc = "call"
    /\ input.fn = "extract_signature"
    /\ result' = extract_signature(input.raw_body, input.sender_header)
    /\ pc' = "return"
    /\ UNCHANGED input

NextSignature == CallSignature

SpecSignature == InitSignature /\ [][NextSignature]_vars

SignatureReturned == pc = "return" /\ input.fn = "extract_signature"

\* The signature block of the body: the suffix of its cleaned lines that
\* starts at the index the boundary detector returns
BlockOf(raw_body) ==
    SignatureBlock(CleanedLines(raw_body.text_lines),
                   find_signature_start(CleanedLines(raw_body.text_lines))).sig_lines

\* The address the header parses to: "" when it is absent or has none
HeaderAddress(sender_header) ==
    IF sender_header = None THEN "" ELSE ParseAddr(sender_header)[2]

\* The first element of a list, none for the empty list
FirstOrNone(seq) == IF seq = <<>> THEN None ELSE seq[1]

\* C1: if senderHeader parses to a non-empty address, emailAddress is that
\* address whatever addresses the body contains; only when the header is
\* absent or parses to no address is emailAddress the first email the email
\* extractor returns over the signature block (none if it returns nothing).
C1_HeaderAddressWins ==
    SignatureReturned =>
        IF HeaderAddress(input.sender_header) # ""
        THEN result.emailAddress = HeaderAddress(input.sender_header)
        ELSE result.emailAddress =
                 FirstOrNone(extract_emails(Join(BlockOf(input.raw_body), "\n")))

\* A header with an address and a body whose signature block holds another one
C1_Witness ==
    /\ SignatureReturned
    /\ input.sender_header = "Jane Doe <jane@acme.com>"
    /\ input.raw_body.text_lines = <<"Acme Inc", "sam@x.io, tel: 415 555 0199">>
    /\ result.emailAddress = "jane@acme.com"

\* A header without an address: the address of the body is taken
C1_WitnessBody ==
    /\ SignatureReturned
    /\ input.sender_header = "Jane <>"
    /\ result.emailAddress = "sam@x.io"

\* C2: whenever the sender header yields an address whose host has a
\* recognised registered domain, companyName is the brand derived from that
\* domain, whatever the body is (so two calls with the same header and
\* different bodies return the same companyName).
C2_CompanyIsSenderBrand ==
    (SignatureReturned /\ SenderDomain(input.sender_header) # None)
        => result.companyName =
               _brand_from_registered_domain(SenderDomain(input.sender_header))

\* The words of the signature block that hold a "." and no "@"
BlockTokens(raw_body) ==
    {w \in UNION {Range(SplitWhitespace(BlockOf(raw_body)[k])) :
                      k \in 1..Len(BlockOf(raw_body))} :
        Contains(w, ".") /\ ~Contains(w, "@")}

\* The candidate pool: the Domain Validator's outputs for every anchor href
\* of the body and for every such word of the signature block
Pool(raw_body) ==
    {_valid_domain(t) : t \in Range(raw_body.hrefs) \cup BlockTokens(raw_body)} \ {None}

\* A lower-case label.suffix registered domain
IsRegisteredDomain(d) ==
    /\ d = Lower(d)
    /\ \E k \in 1..(Len(d) - 2) :
          /\ CharAt(d, k + 1) = "."
          /\ ~Contains(Slice(d, 0, k), ".")
          /\ From(d, k + 1) \in PublicSuffixes

\* C5: website is none exactly when the candidate pool is empty and
\* otherwise is a member of the pool; a present website is a lower-case
\* label.suffix registered domain, and the sender domain is never returned
\* when it is not in the pool.
C5_WebsiteFromPool ==
    SignatureReturned =>
        /\ result.website = None <=> Pool(input.raw_body) = {}
        /\ result.website # None =>
              /\ result.website \in Pool(input.raw_body)
              /\ IsRegisteredDomain(result.website)
        /\ (/\ SenderDomain(input.sender_header) # None
            /\ SenderDomain(input.sender_header) \notin Pool(input.raw_body))
              => result.website # SenderDomain(input.sender_header)

(***************************************************************************)
(* Specification SpecRecord: calls of extract_signature on bodies with a   *)
(* job title and a postal address                                          *)
(***************************************************************************)
\* The sender headers: absent, empty, a display name without an address, a
\* display name with an address
RecordHeaders == {None, "", "Jane <>", "Jane Doe <jane@acme.com>"}

\* The text lines: a job title, a postal address, a line with an email
\* address and a phone number, a company phrase
RecordTextLines ==
    {"Senior Product Manager", "Suite 500, 12 Main Street",
     "sam@x.io, tel: 415 555 0199", "Acme Inc"}

RecordHrefs == {<<>>, <<"https://www.acme.com/about?ref=1">>}

RecordBodies(n) == [hrefs : RecordHrefs, text_lines : SeqsUpTo(RecordTextLines, n)]

InitRecord ==
    /\ pc = "call"
    /\ input \in [fn : {"extract_signature"},
                  raw_body : RecordBodies(MaxBodyLines),
                  sender_header : RecordHeaders]
    /\ result = None

SpecRecord == InitRecord /\ [][NextSignature]_vars

\* The keys of the returned record
SignatureKeys ==
    {"firstName", "lastName", "emailAddress", "companyName", "jobTitle",
     "phoneNumber", "address", "website"}

MaxCompanyLines == 3

\* The signature lines: a person's name, a legal-suffix phrase, a closing, an
\* address line, a phrase of five words, a greeting with a legal-suffix phrase
CompanyLines ==
    {"John Smith", "Acme Inc", "Best regards", "sam@x.io", "one two three four five",
     "Hi, Acme Widgets LLC today"}

\* n lines that every loop of extract_company_name skips
RECURSIVE SkippedLines(_)
SkippedLines(n) == IF n = 0 THEN <<>> ELSE <<"sam@x.io">> \o SkippedLines(n - 1)

\* The line lists: at most n lines, alone or after 11 or 12 skipped lines
CompanyBlocks(n) ==
    {SkippedLines(k) \o q : k \in {0, 11, 12}, q \in SeqsUpTo(CompanyLines, n)}

InitCompany ==
    /\ pc = "call"
    /\ input \in [fn : {"extract_company_name"},
                  lines : CompanyBlocks(MaxCompanyLines),
                  sender_domain : {None, "acme.com", "163.com"}]
    /\ result = None

CallCompany ==
    /\ pc = "call"
    /\ input.fn = "extract_company_name"
    /\ result' = extract_company_name(input.lines, input.sender_domain)
    /\ pc' = "return"
    /\ UNCHANGED input

NextCompany == CallCompany

SpecCompany == InitCompany /\ [][NextCompany]_vars

CompanyReturned == pc = "return" /\ input.fn = "extract_company_name"

\* The legal-suffix-anchored phrase of a line, trimmed; none without one
LegalPhraseIn(line) ==
    IF LegalStarts(line) = {} THEN None
    ELSE StripChars(CollapseBlanks(LegalGroup(line, Min(LegalStarts(line)))),
                    {" ", ",", ".", "-"})

\* The indices, among the first 12 lines, of the lines that are no greeting
\* or closing, do not look like an email or URL and hold a legal-suffix phrase
LegalLineIndices(lines) ==
    {k \in 1..Min({12, Len(lines)}) :
        /\ ~_text_has(lines[k], {"dear", "hello", "hi,", "regards", "thanks"})
        /\ ~_looks_like_email_or_url(lines[k])
        /\ LegalPhraseIn(lines[k]) # None}

\* C18: with no sender registered domain, the result is the legal-suffix
\* phrase of the first scanned line that has one; the short-phrase fallback
\* is used only when no scanned line has one, and then gives a phrase of 1 to
\* 4 words, or none.
C18_CompanyTiersInOrder ==
    (CompanyReturned /\ input.sender_domain = None) =>
        IF LegalLineIndices(input.lines) # {}
        THEN result = LegalPhraseIn(input.lines[Min(LegalLineIndices(input.lines))])
        ELSE \/ result = None
             \/ Len(SplitWhitespace(result)) \in 1..4

(***************************************************************************)
(* Specification SpecNames: calls of _simple_name_from_header_or_email     *)
(***************************************************************************)
MaxLocalPieces == 3

\* The display names: none, a person, a person whose name holds the letters
\* of a role word, a role, a single token, mixed case with an initial
DisplayNames ==
    {"", "Jane Doe", "Christopher Lee", "Support Team", "Jane", "jane m. DOE"}

HeaderAddresses == {"", "x@acme.com", "sales2@acme.com"}

\* The local parts are concatenations of these pieces
LocalPieces == {"john", "sales", "2", ".", "Team", "+"}

\* The headers: absent, or a display name and an address in angle brackets
NameHeaders ==
    {None} \cup {Strip(d \o " <" \o a \o ">") : d \in DisplayNames, a \in HeaderAddresses}

\* The fallback addresses with local parts of at most n pieces
FallbackEmails(n) ==
    {None} \cup {l \o "@acme.com" : l \in ConcatsUpTo(LocalPieces, n) \ {""}}

InitNames ==
    /\ pc = "call"
    /\ input \in [fn : {"_simple_name_from_header_or_email"},
                  sender_header : NameHeaders,
                  fallback_email : FallbackEmails(MaxLocalPieces)]
    /\ result = None

CallNames ==
    /\ pc = "call"
    /\ input.fn = "_simple_name_from_header_or_email"
    /\ result' = _simple_name_from_header_or_email(input.sender_header,
                                                   input.fallback_email)
    /\ pc' = "return"
    /\ UNCHANGED input

NextNames == CallNames

SpecNames == InitNames /\ [][NextNames]_vars

NamesReturned == pc = "return" /\ input.fn = "_simple_name_from_header_or_email"

\* The display name of a header
DisplayOf(sender_header) == ParseAddr(sender_header)[1]

\* Is the token a role word, in any letter case?
IsRoleWord(t) == Lower(t) \in _MINI_ROLE_WORDS

\* The display name has at least two tokens with a letter and no token that
\* is a role word
DisplayIsPerson(disp) ==
    /\ Len(AlphaTokens(disp)) >= 2
    /\ \A t \in Range(SplitWhitespace(disp)) : ~IsRoleWord(t)

\* C19: for a header whose display name has at least two tokens with a
\* letter, none of them a role word, firstName is the first and lastName the
\* last such token, title-cased, whatever the email local part is.
C19_PersonDisplayName ==
    (/\ NamesReturned
     /\ input.sender_header # None
     /\ DisplayIsPerson(DisplayOf(input.sender_header)))
        => /\ result[1] = Capitalize(AlphaTokens(DisplayOf(input.sender_header))[1])
           /\ result[2] = Capitalize(AlphaTokens(DisplayOf(input.sender_header))[
                              Len(AlphaTokens(DisplayOf(input.sender_header)))])

\* The local part of an address
LocalOf(email_addr) == BeforeAny(email_addr, {"@"})

\* C20: when the name is derived from an email local part, neither firstName
\* nor lastName is a role word in any letter case; a local part whose part
\* before "+" has a role-word segment gives firstName = lastName = none.
C20_NoRoleNames ==
    (NamesReturned /\ input.sender_header = None /\ input.fallback_email # None)
        => /\ ~IsRoleWord(result[1])
           /\ ~IsRoleWord(result[2])
           /\ _is_role_local(LocalOf(input.fallback_email))
                 => (result[1] = None /\ result[2] = None)

\* ---------------------------------------------------------------------------
\* service.py: the polling service.  Several service processes (workers) may
\* run against the same database.  In this specification
\*   pc     is, for every worker, its position in main / process_job together
\*          with its local variables (jobs, job, results) and its _shutdown
\*          flag,
\*   input  is the database: the email_scraping_requests table (status and
\*          created_by of every request) and the temp_mail table (the
\*          SignatureResult rows, oldest first),
\*   result is the history of the run: how often every job was picked and
\*          scraped, the results its scrape returned and every row that was
\*          ever committed.
\* Every session_scope block commits or raises as one step: the UPDATE of
\* email_scraping_requests holds the row lock until its commit.
\* ---------------------------------------------------------------------------

Workers == {"w1", "w2"}

Jobs == {1, 2}

\* POLL cycles and scrapes are counted up to this number
MaxCount == 2

\* service.py line 36: 0 = no cap
MAX_JOBS_PER_CYCLE == 0

\* The customer that owns each request
CreatedBy == [j \in Jobs |-> 6 + j]

\* What fetch_signatures can return: a list of signature records, here named
\* by their emailAddress
ResultLists == {<<>>, <<"a@x.io", "b@x.io">>}

\* The views of the state
requests == input.requests

temp_mail == input.temp_mail

_shutdown(w) == pc[w].shutdown

picks == result.picks

scrapes == result.scrapes

extracted == result.extracted

committed == result.committed

Bump(n) == IF n < MaxCount THEN n + 1 ELSE n

\* The ids in ascending order (order_by(EmailFetchRequest.id.asc()))
RECURSIVE Ascending(_)
Ascending(ids) ==
    IF ids = {} THEN <<>>
    ELSE LET least == CHOOSE i \in ids : \A k \in ids : i <= k
         IN <<least>> \o Ascending(ids \ {least})

\* Lines 68-69 and 205: a limit of 0 is no limit
Limited(jobs, limit) ==
    IF limit > 0 /\ Len(jobs) > limit
    THEN SubSeq(jobs, 1, limit) ELSE jobs

\* Lines 61-74
pick_pending_jobs(reqs, limit) ==
    Limited(Ascending({j \in DOMAIN reqs : reqs[j].status = 0}), limit)

\* Lines 83-88: the rows the UPDATE matches, and the table after it
MutMarkRunningRows(reqs, job_id) ==
    {j \in DOMAIN reqs : j = job_id}

MarkRunningRows(reqs, job_id) ==
    {j \in DOMAIN reqs : j = job_id /\ reqs[j].status = 0}

SetStatus(reqs, rows, status) ==
    [j \in DOMAIN reqs |->
        IF j \in rows THEN [reqs[j] EXCEPT !.status = status] ELSE reqs[j]]

mark_running(reqs, job_id) ==
    [requests |-> SetStatus(reqs, MarkRunningRows(reqs, job_id), 2),
     returns |-> Cardinality(MarkRunningRows(reqs, job_id)) > 0]

\* Lines 91-97
mark_done(reqs, job_id) ==
    SetStatus(reqs, {j \in DOMAIN reqs : j = job_id}, 1)

MutMarkFailedRetry(reqs, job_id) ==
    SetStatus(reqs, {j \in DOMAIN reqs : j = job_id}, 0)

\* Lines 100-106
mark_failed(reqs, job_id) ==
    SetStatus(reqs, {j \in DOMAIN reqs : j = job_id}, -1)

\* Lines 126-137: the rows save_results adds for a job
SignatureResults(job_id, created_by, results) ==
    [i \in 1..Len(results) |->
        [request_id |-> job_id, created_by |-> created_by, email |-> results[i]]]

MutSaveNothing(reqs, job_id, results) == <<>>

\* Lines 111-137: the rows save_results commits
save_results(reqs, job_id, results) ==
    IF results = <<>> THEN <<>>
    ELSE IF job_id \notin DOMAIN reqs THEN <<>>
    ELSE SignatureResults(job_id, reqs[job_id].created_by, results)

\* Lines 175-186: the rows older than the cutoff are the first k rows of the
\* table, for some k that depends on the time
cleanup_old_results(rows, k) == SubSeq(rows, k + 1, Len(rows))

At(w, label) == pc[w].at = label

Goto(w, label) == pc' = [pc EXCEPT ![w].at = label]

InitService ==
    /\ pc = [w \in Workers |->
                [at |-> "startup", jobs |-> <<>>, job |-> 0,
                 results |-> <<>>, shutdown |-> FALSE]]
    /\ input = [requests |-> [j \in Jobs |->
                                [status |-> 0, created_by |-> CreatedBy[j]]],
                temp_mail |-> <<>>]
    /\ result = [picks |-> [j \in Jobs |-> 0],
                 scrapes |-> [j \in Jobs |-> 0],
                 extracted |-> [j \in Jobs |-> <<>>],
                 committed |-> <<>>]

\* Lines 47-51: the signal handler only sets the flag
handle_sigterm(w) ==
    /\ ~At(w, "stopped")
    /\ ~At(w, "crashed")
    /\ ~_shutdown(w)
    /\ pc' = [pc EXCEPT ![w].shutdown = TRUE]
    /\ UNCHANGED <<input, result>>

\* Lines 199-200: the first cleanup, outside the try of the loop
Startup(w) ==
    /\ At(w, "startup")
    /\ \E k \in 0..Len(temp_mail) :
          input' = [input EXCEPT !.temp_mail = cleanup_old_results(temp_mail, k)]
    /\ Goto(w, "while")
    /\ UNCHANGED result

StartupRaises(w) ==
    /\ At(w, "startup")
    /\ Goto(w, "crashed")
    /\ UNCHANGED <<input, result>>

\* Line 202 and line 233
WhileNotShutdown(w) ==
    /\ At(w, "while")
    /\ Goto(w, IF _shutdown(w) THEN "stopped" ELSE "pick")
    /\ UNCHANGED <<input, result>>

\* Line 205
PickPendingJobs(w) ==
    /\ At(w, "pick")
    /\ pc' = [pc EXCEPT ![w].at = "for",
                        ![w].jobs = pick_pending_jobs(requests, MAX_JOBS_PER_CYCLE)]
    /\ result' = [result EXCEPT !.picks =
                     [j \in Jobs |->
                         IF j \in Range(pick_pending_jobs(requests, MAX_JOBS_PER_CYCLE))
                         THEN Bump(picks[j]) ELSE picks[j]]]
    /\ UNCHANGED input

\* Lines 226-231: an exception of the cycle is printed, and the worker sleeps
Raises(w) ==
    /\ pc' = [pc EXCEPT ![w].at = "sleep", ![w].jobs = <<>>, ![w].results = <<>>]
    /\ UNCHANGED <<input, result>>

PickRaises(w) == At(w, "pick") /\ Raises(w)

\* A plausible slip: the for loop does not test the flag.
MutForJobIgnoresShutdown(w) ==
    /\ At(w, "for")
    /\ IF pc[w].jobs = <<>>
       THEN pc' = [pc EXCEPT ![w].at = "cleanup", ![w].jobs = <<>>]
       ELSE pc' = [pc EXCEPT ![w].at = "mark_running",
                             ![w].job = Head(pc[w].jobs),
                             ![w].jobs = Tail(pc[w].jobs)]
    /\ UNCHANGED <<input, result>>

\* Lines 212-215: the next job of the list, unless there is none or the
\* worker is shutting down
ForJob(w) ==
    /\ At(w, "for")
    /\ IF pc[w].jobs = <<>> \/ _shutdown(w)
       THEN pc' = [pc EXCEPT ![w].at = "cleanup", ![w].jobs = <<>>]
       ELSE pc' = [pc EXCEPT ![w].at = "mark_running",
                             ![w].job = Head(pc[w].jobs),
                             ![w].jobs = Tail(pc[w].jobs)]
    /\ UNCHANGED <<input, result>>

\* Lines 151-153
MarkRunning(w) ==
    /\ At(w, "mark_running")
    /\ input' = [input EXCEPT !.requests = mark_running(requests, pc[w].job).requests]
    /\ Goto(w, IF mark_running(requests, pc[w].job).returns THEN "fetch" ELSE "for")
    /\ UNCHANGED result

\* mark_running is outside the try of process_job
MarkRunningRaises(w) == At(w, "mark_running") /\ Raises(w)

\* Lines 156-162
FetchSignatures(w) ==
    /\ At(w, "fetch")
    /\ \E results \in ResultLists :
          /\ pc' = [pc EXCEPT ![w].at = "save_results", ![w].results = results]
          /\ result' = [result EXCEPT !.scrapes[pc[w].job] = Bump(@),
                                      !.extracted[pc[w].job] = results]
    /\ UNCHANGED input

\* Lines 166-169
Excepts(w) ==
    /\ Goto(w, "mark_failed")
    /\ UNCHANGED input

FetchRaises(w) ==
    /\ At(w, "fetch")
    /\ Excepts(w)
    /\ result' = [result EXCEPT !.scrapes[pc[w].job] = Bump(@)]

\* Line 163
SaveResults(w) ==
    /\ At(w, "save_results")
    /\ input' = [input EXCEPT !.temp_mail =
                    @ \o save_results(requests, pc[w].job, pc[w].results)]
    /\ result' = [result EXCEPT !.committed =
                    @ \o save_results(requests, pc[w].job, pc[w].results)]
    /\ Goto(w, "mark_done")

\* db.py lines 35-38: the session is rolled back, and the exception raised
SaveResultsRaises(w) == At(w, "save_results") /\ Excepts(w) /\ UNCHANGED result

\* Line 164
MarkDone(w) ==
    /\ At(w, "mark_done")
    /\ input' = [input EXCEPT !.requests = mark_done(requests, pc[w].job)]
    /\ pc' = [pc EXCEPT ![w].at = "for", ![w].results = <<>>]
    /\ UNCHANGED result

MarkDoneRaises(w) == At(w, "mark_done") /\ Excepts(w) /\ UNCHANGED result

\* Line 169
MarkFailed(w) ==
    /\ At(w, "mark_failed")
    /\ input' = [input EXCEPT !.requests = mark_failed(requests, pc[w].job)]
    /\ pc' = [pc EXCEPT ![w].at = "for", ![w].results = <<>>]
    /\ UNCHANGED result

\* mark_failed is called in the except block: its exception leaves process_job
MarkFailedRaises(w) == At(w, "mark_failed") /\ Raises(w)

\* Lines 218-221: when a day has passed, the old rows are deleted
Cleanup(w) ==
    /\ At(w, "cleanup")
    /\ \E k \in 0..Len(temp_mail) :
          input' = [input EXCEPT !.temp_mail = cleanup_old_results(temp_mail, k)]
    /\ Goto(w, "sleep")
    /\ UNCHANGED result

CleanupRaises(w) == At(w, "cleanup") /\ Raises(w)

\* Lines 224, 228, 231
Sleep(w) ==
    /\ At(w, "sleep")
    /\ Goto(w, "while")
    /\ UNCHANGED <<input, result>>

WorkerStep(w) ==
    \/ Startup(w)
    \/ StartupRaises(w)
    \/ WhileNotShutdown(w)
    \/ PickPendingJobs(w)
    \/ PickRaises(w)
    \/ ForJob(w)
    \/ MarkRunning(w)
    \/ MarkRunningRaises(w)
    \/ FetchSignatures(w)
    \/ FetchRaises(w)
    \/ SaveResults(w)
    \/ SaveResultsRaises(w)
    \/ MarkDone(w)
    \/ MarkDoneRaises(w)
    \/ MarkFailed(w)
    \/ MarkFailedRaises(w)
    \/ Cleanup(w)
    \/ CleanupRaises(w)
    \/ Sleep(w)

NextService == \E w \in Workers : WorkerStep(w) \/ handle_sigterm(w)

SpecService == InitService /\ [][NextService]_vars

\* The steps in which the database and the mailbox answer
Succeeds(w) ==
    \/ Startup(w)
    \/ PickPendingJobs(w)
    \/ MarkRunning(w)
    \/ FetchSignatures(w)
    \/ SaveResults(w)
    \/ MarkDone(w)
    \/ MarkFailed(w)
    \/ Cleanup(w)

\* Every worker that has not stopped goes on running (main is a loop that
\* catches every exception of a cycle), and the database and the mailbox do
\* not fail for ever; a signal need not come
FairService ==
    /\ SpecService
    /\ \A w \in Workers : WF_vars(WorkerStep(w)) /\ SF_vars(Succeeds(w))

\* Every worker that has not left main goes on running; nothing is assumed
\* of the database, of the mailbox or of the signals
FairMain == SpecService /\ \A w \in Workers : WF_vars(WorkerStep(w))

Status(j) == requests[j].status

\* The worker has moved the job to running and is processing it
Holds(w, j) ==
    /\ pc[w].job = j
    /\ pc[w].at \in {"fetch", "save_results", "mark_done", "mark_failed"}

\* The worker found the job not pending and skipped it
Skips(w) == At(w, "mark_running") /\ pc'[w].at = "for"

\* C13: mark_running is race-safe: under every interleaving of the workers at
\* most one of them gets true from mark_running for a job, so at most one
\* worker scrapes the mailbox and saves results for it; a worker that skips
\* the job changes neither a status nor the results.
C13_MarkRunningRaceSafe ==
    [][/\ \A j \in Jobs :
            /\ \A v, w \in Workers : (Holds(v, j)' /\ Holds(w, j)') => v = w
            /\ scrapes'[j] <= 1
       /\ \A w \in Workers : Skips(w) => UNCHANGED input]_vars

\* One worker processes a job that the other one has picked and skipped
C13_Witness ==
    \E j \in Jobs : \E v, w \in Workers :
        /\ v # w
        /\ Holds(v, j)
        /\ At(w, "for") /\ pc[w].job = j
        /\ picks[j] = 2

\* The changes of a status that the service makes
StatusEdges == {<<0, 2>>, <<2, 1>>, <<2, -1>>}

StatusStep(j) ==
    /\ Status(j)' \in {0, 2, 1, -1}
    /\ Status(j)' # Status(j) => <<Status(j), Status(j)'>> \in StatusEdges

\* C14 as stated: every status is 0, 2, 1 or -1 and changes only along
\* 0 -> 2, 2 -> 1 and 2 -> -1, so that a done or failed job keeps its status,
\* and no job is picked twice or processed twice.
C14_PickedOnce ==
    [][\A j \in Jobs : StatusStep(j) /\ scrapes'[j] <= 1 /\ picks'[j] <= 1]_vars

\* C14: every status is 0, 2, 1 or -1 and changes only along 0 -> 2, 2 -> 1
\* and 2 -> -1, so that a done or failed job keeps its status, and no job is
\* processed twice (it may be picked by two workers, or again after
\* mark_running raised).
C14_StatusEdges ==
    [][\A j \in Jobs : StatusStep(j) /\ scrapes'[j] <= 1]_vars

\* A job that was picked twice is done, another one has failed
C14_Witness ==
    \E i, j \in Jobs :
        /\ Status(i) = 1 /\ picks[i] = 2 /\ scrapes[i] = 1
        /\ Status(j) = -1

\* No worker has left its loop
AllServing == \A w \in Workers : ~At(w, "stopped") /\ ~At(w, "crashed")

\* C15: every job that is running eventually is done or failed, also when
\* mark_done or mark_failed raises.  The runs in which a worker stops are left
\* aside: the property is stated for the runs in which every worker goes on
\* polling.
C15_RunningEnds ==
    []AllServing => \A j \in Jobs : (Status(j) = 2) ~> (Status(j) \in {1, -1})

\* The rows of a job among the rows
RowsOf(rows, j) == SelectSeq(rows, LAMBDA row : row.request_id = j)

\* C16: when the status of a job is done, every signature record of its run
\* has been committed as a row with the job's id as request_id and the parent
\* request's created_by.
C16_DoneAfterSave ==
    \A j \in Jobs :
        Status(j) = 1 =>
            RowsOf(committed, j)
                = SignatureResults(j, requests[j].created_by, extracted[j])

\* A job with results is done
C16_Witness ==
    \E j \in Jobs : Status(j) = 1 /\ Len(extracted[j]) = 2 /\ Len(temp_mail) < Len(committed)

\* C17: when a job is marked failed, no row of its run has been committed.
C17_FailedHasNoRows ==
    \A j \in Jobs : Status(j) = -1 => RowsOf(committed, j) = <<>>

(***************************************************************************)
(* Specification SpecShared: the calls of extract_signature on the one     *)
(* extractor instance that IMAPScraper keeps (imap_scraper.py line 15 and  *)
(* line 83).  The calls of several threads interleave: a call begins with  *)
(* its message and returns later.  Here                                    *)
(*   pc     is what every thread is doing,                                 *)
(*   input  is the instance (its pattern tables and vocabularies) and the  *)
(*          message of every call that is running,                         *)
(*   result is the set of the <<message, record>> pairs returned so far.   *)
(***************************************************************************)
Threads == {"t1", "t2"}

\* Lines 36-72: the tables __init__ builds, as far as the extractors read them
Instance ==
    [metadata_patterns |-> MetadataHeads,
     signature_separators |-> CourtesySeparators,
     _generic_brand_tokens |-> _generic_brand_tokens,
     _MINI_ROLE_WORDS |-> _MINI_ROLE_WORDS]

\* The messages of the mailbox: body and From header
Messages ==
    {[raw_body |-> [hrefs |-> <<>>,
                    text_lines |-> <<"Acme Inc", "sam@x.io, tel: 415 555 0199">>],
      sender_header |-> "Jane Doe <jane@acme.com>"],
     [raw_body |-> [hrefs |-> <<"https://www.acme.com/about?ref=1">>,
                    text_lines |-> <<"Senior Product Manager", "Suite 500, 12 Main Street">>],
      sender_header |-> "Jane <>"],
     [raw_body |-> [hrefs |-> <<>>, text_lines |-> <<"--", "www.Acme.com b.io">>],
      sender_header |-> "al@mail.b.io"],
     [raw_body |-> [hrefs |-> <<>>, text_lines |-> <<>>],
      sender_header |-> None]}

\* The record without a value
EmptyRecord ==
    [firstName |-> None, lastName |-> None, emailAddress |-> None,
     companyName |-> None, jobTitle |-> None, phoneNumber |-> None,
     address |-> None, website |-> None]

\* A plausible slip: the call remembers the role words it has seen.
MutInstanceAfter(self, message) ==
    [self EXCEPT !._MINI_ROLE_WORDS = @ \cup {Lower(message.sender_header)}]

\* The instance after a call: no extractor assigns an attribute of self or
\* changes one of its lists and sets; the tables are only read (lines 84,
\* 100, 203, 275, 292, 298, 304, 488-490, 622)
InstanceAfter(self, message) == self

\* What a call can return: with the tables of __init__ the record of
\* extract_signature; with other tables nothing is known about the record
RecordsWith(self, message) ==
    IF self = Instance
    THEN {extract_signature(message.raw_body, message.sender_header)}
    ELSE {extract_signature(message.raw_body, message.sender_header), EmptyRecord}

InitShared ==
    /\ pc = [t \in Threads |-> "idle"]
    /\ input = [self |-> Instance, message |-> [t \in Threads |-> None]]
    /\ result = {}

\* imap_scraper.py line 83: a thread calls extract_signature for a message
BeginExtract(t) ==
    /\ pc[t] = "idle"
    /\ \E message \in Messages :
          input' = [input EXCEPT !.message[t] = message]
    /\ pc' = [pc EXCEPT ![t] = "extract_signature"]
    /\ UNCHANGED result

\* Lines 634-684: the call returns its record
ReturnExtract(t) ==
    /\ pc[t] = "extract_signature"
    /\ \E record \in RecordsWith(input.self, input.message[t]) :
          result' = result \cup {<<input.message[t], record>>}
    /\ input' = [input EXCEPT !.self = InstanceAfter(input.self, input.message[t]),
                              !.message[t] = None]
    /\ pc' = [pc EXCEPT ![t] = "idle"]

NextShared == \E t \in Threads : BeginExtract(t) \/ ReturnExtract(t)

SpecShared == InitShared /\ [][NextShared]_vars

MaxTitleLines == 2

\* The signature lines: a name, generic titles, C-suite tokens in upper and
\* lower case, a C-suite token beside a generic title, a title beside an email
\* address, and a sentence of more than 80 characters that holds a title
TitleLines ==
    {"Jane Doe", "Senior Product Manager", "CEO", "VP", "vp sales",
     "Vice President", "Sales Director and CEO", "Manager sam@x.io",
     "Please ask the account manager who joined our group last spring to review the open items"}

\* The line lists: at most n lines, alone or after 11 or 12 skipped lines
TitleBlocks(n) ==
    {SkippedLines(k) \o q : k \in {0, 11, 12}, q \in SeqsUpTo(TitleLines, n)}

InitTitle ==
    /\ pc = "call"
    /\ input \in [fn : {"extract_job_title"}, lines : TitleBlocks(MaxTitleLines)]
    /\ result = None

CallTitle ==
    /\ pc = "call"
    /\ input.fn = "extract_job_title"
    /\ result' = extract_job_title(input.lines)
    /\ pc' = "return"
    /\ UNCHANGED input

NextTitle == CallTitle

SpecTitle == InitTitle /\ [][NextTitle]_vars

TitleReturned == pc = "return" /\ input.fn = "extract_job_title"

\* The indices of the first 12 lines
FirstTwelve(lines) == 1..Min({12, Len(lines)})

\* A line with no email, phone or URL shape and of at most 80 characters
TitleLineAllowed(line) ==
    /\ ~HasEmail(line)
    /\ ~HasPhone(line)
    /\ ~HasWebsite(line)
    /\ Len(line) <= 80

\* C21: a returned title is taken from one of the first 12 lines, and from a
\* line that has no email, phone or URL shape and is at most 80 characters
\* long; when no such line holds a title the result is none.
C21_TitleFromAllowedLine ==
    (TitleReturned /\ result # None) =>
        \E k \in FirstTwelve(input.lines) :
            /\ TitleLineAllowed(input.lines[k])
            /\ Contains(Lower(input.lines[k]), Lower(result))

\* The first of the first 12 lines that is scanned and has a title match, 0
\* when there is none
TitleMatchIndices(lines) ==
    {k \in FirstTwelve(lines) :
        /\ ~SkippedForTitle(lines[k])
        /\ (CSuiteSpan(lines[k], 0) # <<>> \/ TitleSpans(lines[k], 0) # <<>>)}

FirstTitleMatch(lines) ==
    IF TitleMatchIndices(lines) = {} THEN 0 ELSE Min(TitleMatchIndices(lines))

\* The C-suite token of a line as it appears in the line
CSuiteToken(line) ==
    Slice(line, CSuiteSpan(line, 0)[1], CSuiteSpan(line, 0)[2])

\* C22: when the first scanned line with a title match has a standalone
\* C-suite token, the result is that token as it appears in the line.
C22_CSuiteAsWritten ==
    (/\ TitleReturned
     /\ FirstTitleMatch(input.lines) # 0
     /\ CSuiteSpan(input.lines[FirstTitleMatch(input.lines)], 0) # <<>>) =>
        result = CSuiteToken(input.lines[FirstTitleMatch(input.lines)])

(***************************************************************************)
(* Further properties of extract_phones (SpecPhones)                       *)
(***************************************************************************)
\* The digits of the extension that follows the first occurrence of a chunk
\* in the text (white space, then ext, x or extension, then 1 to 5 digits),
\* None when no extension follows
ExtensionAfter(text, original) ==
    ExtMatchAt(text, RunEnd(text, Find(text, original) + Len(original), Spaces))

\* The string expected for a candidate: its normalised number, with " x" and
\* the digits of the extension that follows it, if any
WithExtension(norm, ext) == IF ext = None THEN norm ELSE norm \o " x" \o ext

ExpectedPhone(text, original) ==
    WithExtension(NormOf(Strip(original)), ExtensionAfter(text, original))

\* C23: every candidate that passes validation is returned as its normalised
\* number, followed by " x<digits>" when an extension marker and 1 to 5
\* digits follow it in the text, and without suffix otherwise.
C23_ExtensionAppended ==
    PhonesReturned =>
        \A k \in 1..Len(PhoneCandidates(input.text)) :
            PhoneOfChunk(input.text, PhoneCandidates(input.text)[k]) # None =>
                ExpectedPhone(input.text, PhoneCandidates(input.text)[k]) \in Range(result)

(***************************************************************************)
(* Specification SpecPhoneSources: calls of extract_phones on texts of     *)
(* numbers with and without context words                                  *)
(***************************************************************************)
\* The pieces: a "+", a leading digit, a seven digit block, a separator, a
\* context word before a number and a context word after a number
SourcePieces == {"+", "1", "5550199", " ", "tel:", " call"}

InitPhoneSources ==
    /\ pc = "call"
    /\ input \in [fn : {"extract_phones"}, text : ConcatsUpTo(SourcePieces, MaxPhonePieces)]
    /\ result = None

SpecPhoneSources == InitPhoneSources /\ [][NextPhones]_vars

\* Is the returned string r the normalised number of the chunk, alone or with
\* an extension suffix?
ComesFrom(r, norm) ==
    /\ StartsAt(r, norm, 0)
    /\ (Len(r) = Len(norm) \/ StartsAt(r, " x", Len(norm)))

\* The indices of the chunks that a returned string comes from
SourcesOf(r, chunks) ==
    {k \in 1..Len(chunks) : ComesFrom(r, NormOf(Strip(chunks[k])))}

\* Every returned string comes from one of the chunks, no string is returned
\* twice, and the strings are in the order of the chunks they first come from
ReturnedInOrderFrom(chunks) ==
    /\ \A i \in 1..Len(result) : SourcesOf(result[i], chunks) # {}
    /\ \A i, j \in 1..Len(result) :
          i < j => /\ result[i] # result[j]
                   /\ Min(SourcesOf(result[i], chunks)) < Min(SourcesOf(result[j], chunks))

\* The chunks the returned strings may come from: the context chunks ctx of
\* the text when there are any, the loose chunks otherwise
SourceChunks(text, ctx) == IF ctx # <<>> THEN ctx ELSE LooseChunksFrom(text, 0)

\* C24: when the text has a context candidate, every returned number comes
\* from a context candidate (so the result is empty when they all fail
\* validation, whatever context-free numbers the text holds); the loose
\* candidates are the source only when there is no context candidate.  The
\* returned numbers are distinct and in first-seen order.
C24_LooseOnlyWithoutContext ==
    PhonesReturned =>
        ReturnedInOrderFrom(SourceChunks(input.text, ContextChunksFrom(input.text, 0)))

\* A number before a context word is returned and the valid number after the
\* word, which is a loose candidate only, is not; and a text whose one context
\* candidate has 14 digits gives nothing although it ends with a valid number.
C24_Witness ==
    /\ PhonesReturned
    /\ \/ /\ input.text = "15550199 call5550199"
          /\ ContextChunksFrom(input.text, 0) = <<"15550199">>
          /\ LooseChunksFrom(input.text, 0) = <<"15550199", "5550199">>
          /\ result = <<"15550199">>
       \/ /\ input.text = "55501995550199 call5550199"
          /\ ContextChunksFrom(input.text, 0) = <<"55501995550199">>
          /\ PhoneOfChunk(input.text, "5550199") = "5550199"
          /\ result = <<>>

\* The indices at which the chunk occurs in the text
Occurrences(text, original) ==
    {i \in 0..(Len(text) - Len(original)) : StartsAt(text, original, i)}

\* The text from 6 characters before index p to 6 characters after the end
\* of a chunk that starts at p
OwnWindow(text, original, p) ==
    Slice(text, IF p > window THEN p - window ELSE 0, p + Len(original) + window)

\* Lines 382-398: the candidate passes every test before the currency test
PassesNumberTests(original) ==
    /\ NormOf(Strip(original)) # ""
    /\ ~_looks_like_tracking_id(original, NormOf(Strip(original)))
    /\ ValidNumber(NormOf(Strip(original)))

\* The candidates of the same normalised number
SameNumber(chunks, original) ==
    {k \in 1..Len(chunks) : NormOf(Strip(chunks[k])) = NormOf(Strip(original))}

\* C25: a candidate that passes the number tests is rejected exactly when the
\* text from 6 characters before its match to 6 characters after it holds a
\* currency hint, wherever the match is in the text.  (Stated for the
\* candidates whose chunk occurs once in the text, so that the match is the
\* first occurrence, and that are the only candidate of their number.)
C25_CurrencyWindowOfMatch ==
    PhonesReturned =>
        \A k \in 1..Len(PhoneCandidates(input.text)) :
            (/\ PassesNumberTests(PhoneCandidates(input.text)[k])
             /\ Cardinality(Occurrences(input.text, PhoneCandidates(input.text)[k])) = 1
             /\ SameNumber(PhoneCandidates(input.text), PhoneCandidates(input.text)[k]) = {k})
            => (NormOf(Strip(PhoneCandidates(input.text)[k])) \notin Range(result)
                <=> _text_has(OwnWindow(input.text, PhoneCandidates(input.text)[k],
                                        Find(input.text, PhoneCandidates(input.text)[k])),
                              CURRENCY_HINTS))

(***************************************************************************)
(* Further properties of find_signature_start (SpecBoundary)               *)
(***************************************************************************)
\* The indices among the last 25 lines of the lines with a courtesy word
CourtesyIndices(lines) ==
    {i \in LastIndices(Len(lines), 25) : HasCourtesyWord(lines[i + 1])}

\* The indices among the last 20 lines of the lines with an email or phone shape
ContactIndices(lines) ==
    {i \in LastIndices(Len(lines), 20) : HasEmail(lines[i + 1]) \/ HasPhone(lines[i + 1])}

\* C26: when none of the last 30 lines is a separator shape, the result is
\* the highest index of a courtesy-word line among the last 25 lines, else
\* max(0, i - 5) for the highest index i of an email or phone line among the
\* last 20 lines, else max(0, len(lines) - 15); a window is all lines, index 0
\* included, when the document is shorter than the window.
C26_LowerTiers ==
    (BoundaryReturned /\ SeparatorIndices(input.lines) = {}) =>
        result.sig_start =
            IF CourtesyIndices(input.lines) # {} THEN Max(CourtesyIndices(input.lines))
            ELSE IF ContactIndices(input.lines) # {}
                 THEN Max({0, Max(ContactIndices(input.lines)) - 5})
            ELSE Max({0, Len(input.lines) - 15})

(***************************************************************************)
(* Specification SpecNormalizer: calls of _extract_links_and_text          *)
(***************************************************************************)
MaxRawLines == 3

\* Lines 229-286: the valid domains of the anchors and the cleaned lines
_extract_links_and_text(raw_html_or_text) ==
    <<LinkDomains(raw_html_or_text.hrefs), CleanedLines(raw_html_or_text.text_lines)>>

\* n copies of the string c
RECURSIVE Repeat(_, _)
Repeat(c, n) ==
    IF n = 0 THEN ""
    ELSE (IF n % 2 = 1 THEN c ELSE "") \o Repeat(c \o c, n \div 2)

\* The lines of the flattened text: an empty and a blank line, a phrase with
\* and without white space around it, quoted headers (plain, bold, and bold
\* Date), a registered-mark line, an unsubscribe line, a price, a currency
\* word without a digit, and lines of 200 and of 201 characters
RawLines ==
    {"", "  ", "Acme Inc", "  Acme Inc ", "From: kim@b.io", "**From:** Kim",
     "**Date:** Monday", "® Acme", "Click here to Unsubscribe", "Price: $15000",
     "paid in usd", Repeat("Ab", 100), Repeat("Ab", 100) \o "c"}

RawTexts(n) == [hrefs : {<<"https://www.acme.com/about?ref=1">>},
                text_lines : SeqsUpTo(RawLines, n)]

InitNormalizer ==
    /\ pc = "call"
    /\ input \in [fn : {"_extract_links_and_text"}, raw_html_or_text : RawTexts(MaxRawLines)]
    /\ result = None

CallNormalizer ==
    /\ pc = "call"
    /\ input.fn = "_extract_links_and_text"
    /\ result' = _extract_links_and_text(input.raw_html_or_text)
    /\ pc' = "return"
    /\ UNCHANGED input

NextNormalizer == CallNormalizer

SpecNormalizer == InitNormalizer /\ [][NextNormalizer]_vars

NormalizerReturned == pc = "return" /\ input.fn = "_extract_links_and_text"

\* The metadata-header shapes: a header name and its bold-markdown
\* equivalent at the start of the line, in any letter case, followed by text
HeaderNames == {"from:", "sent:", "to:", "subject:", "date:", "cc:", "bcc:"}

HeaderShapes == HeaderNames \cup {"**" \o h \o "**" : h \in HeaderNames}

HasHeaderShape(line) ==
    \E head \in HeaderShapes : MatchesWordAt(line, head, 0) /\ Len(line) > Len(head)

\* Is sub a subsequence of seq (the order kept)?
RECURSIVE IsSubsequence(_, _)
IsSubsequence(sub, seq) ==
    IF sub = <<>> THEN TRUE
    ELSE IF seq = <<>> THEN FALSE
    ELSE IF Head(sub) = Head(seq) THEN IsSubsequence(Tail(sub), Tail(seq))
    ELSE IsSubsequence(sub, Tail(seq))

\* What a cleaned line must be
CleanLine(line, lcl) ==
    /\ line # ""
    /\ Strip(line) = line
    /\ Len(line) <= 200
    /\ \A x \in {"copyright", "©", "rights reserved", "®", "unsubscribe", "opt-out",
                 "privacy policy"} : ~Contains(lcl, x)
    /\ ~(_text_has(lcl, CURRENCY_HINTS) /\ HasDigit(lcl))
    /\ ~HasHeaderShape(line)

\* C27: every cleaned line is non-empty, trimmed, of at most 200 characters,
\* without copyright, registered-mark or unsubscribe wording, without a
\* currency hint beside a digit, and without a metadata-header shape (From:,
\* Sent:, To:, Subject:, Date:, Cc:, Bcc: or their bold equivalents); no two
\* consecutive lines are equal; the lines are a subsequence, in order, of the
\* trimmed lines of the flattened text.
C27_CleanedDocument ==
    NormalizerReturned =>
        /\ \A k \in 1..Len(result[2]) : CleanLine(result[2][k], Lower(result[2][k]))
        /\ \A k \in 1..(Len(result[2]) - 1) : result[2][k] # result[2][k + 1]
        /\ IsSubsequence(result[2], MapStrip(input.raw_html_or_text.text_lines))

(***************************************************************************)
(* Specification SpecDomain: calls of _valid_domain                        *)
(***************************************************************************)
MaxSubdomains == 1

\* The tokens: a host, under at most n subdomain labels, with or without a
\* scheme, a path and punctuation around it.  The hosts are registered
\* domains in both letter cases, a bare public suffix, a name without a
\* suffix, a price, a host with a currency word, a host of digits and an
\* address; "click" is a tracking hint.
DomainHosts ==
    {"example.com", "Acme.CO.UK", "co.uk", "localhost", "62999.00", "cars.io",
     "163.com", "b@x.io"}

RECURSIVE SubdomainsOver(_, _)
SubdomainsOver(labels, n) ==
    IF n = 0 THEN {""}
    ELSE {""} \cup {l \o "." \o s : l \in labels, s \in SubdomainsOver(labels, n - 1)}

DomainTokens(n) ==
    {pre \o sub \o host \o post :
        pre \in {"", "http://", "https://", "("},
        sub \in SubdomainsOver({"www", "mail", "click"}, n),
        host \in DomainHosts,
        post \in {"", "/about", ")."}}

InitDomain ==
    /\ pc = "call"
    /\ input \in [fn : {"_valid_domain"}, token : DomainTokens(MaxSubdomains)]
    /\ result = None

CallDomain ==
    /\ pc = "call"
    /\ input.fn = "_valid_domain"
    /\ result' = _valid_domain(input.token)
    /\ pc' = "return"
    /\ UNCHANGED input

NextDomain == CallDomain

SpecDomain == InitDomain /\ [][NextDomain]_vars

DomainReturned == pc = "return" /\ input.fn = "_valid_domain"

\* The host of a cleaned token as tldextract splits it
HostOfToken(token) ==
    TldExtract(IF StartsAt(token, "http://", 0) \/ StartsAt(token, "https://", 0)
               THEN token ELSE "http://" \o token)

\* The reasons for which a cleaned token has no domain, ext being its host
RejectedToken(token, ext) ==
    \/ Contains(token, "@")
    \/ _text_has(token, CURRENCY_HINTS)
    \/ (HasDigit(token) /\ ~HasAlpha(token))
    \/ ext.suffix = ""
    \/ _text_has(JoinNonEmpty(<<ext.subdomain, ext.domain, ext.suffix>>), TRACKING_HINTS)

DomainExpected(token, ext) ==
    IF RejectedToken(token, ext) THEN None
    ELSE Lower(ext.domain) \o "." \o Lower(ext.suffix)

\* C28: the result is none for a token with "@", with a currency marker,
\* with a digit and no letter, without a recognised public suffix or with a
\* tracking hint in its full host; for every other token it is the lower-cased
\* label.suffix of the host, the subdomain discarded.
C28_RegisteredDomain ==
    DomainReturned =>
        result = DomainExpected(_clean_token(input.token),
                                HostOfToken(_clean_token(input.token)))

(***************************************************************************)
(* Further properties of extract_emails (SpecEmails)                       *)
(***************************************************************************)
HostNotExcluded(e) == HostOf(e) \notin {"example.com", "test.com", "localhost"}

\* C29: the result is exactly the email-shaped substrings of the text whose
\* host is not example.com, test.com or localhost, each once, in the order of
\* first occurrence; an address at any other host is retained.
C29_ExactlyOtherHosts ==
    EmailsReturned =>
        result = Dedup(SelectSeq(EmailFindAllFrom(input.text, 0), HostNotExcluded), {})

\* ---------------------------------------------------------------------------
\* service.py: graceful shutdown (FairMain)
\* ---------------------------------------------------------------------------
\* The worker has left main: by the end of its loop, or by an exception of
\* the first cleanup
Terminated(w) == At(w, "stopped") \/ At(w, "crashed")

\* The steps that move a job of the worker from pending to running, and that
\* pick a batch
StartsJob(w) == At(w, "mark_running") /\ pc'[w].at = "fetch"

PicksBatch(w) == At(w, "pick") /\ pc'[w].at = "for"

TakesJob(w) == At(w, "for") /\ pc'[w].at = "mark_running"

BeginsCycle(w) == At(w, "while") /\ pc'[w].at = "pick"

\* The ways in which a worker lets go of the job it is processing: mark_done,
\* mark_failed, or an exception of mark_failed
EndsJob(w, j) ==
    \/ Status(j)' \in {1, -1}
    \/ At(w, "mark_failed") /\ pc'[w].at = "sleep"

====
